---------------------------- MODULE Spec2Model ----------------------------
(***************************************************************************)
(* Signal analyzer and spot trader of bitcoin-watcher.                     *)
(*                                                                         *)
(* The model follows backend/lambda/signal_analyzer.py (lambda_handler and *)
(* the functions it calls) and backend/lambda/binance_trader.py            *)
(* (BinanceSpotTrader).  One invocation of lambda_handler is a sequence of *)
(* steps, one per call the handler makes to a store, to the secret store,  *)
(* to the exchange or to the notification service; every such call either  *)
(* answers or raises, chosen by the environment.                           *)
(*                                                                         *)
(* Numbers.  Python floats are modelled by exact rationals: prices are     *)
(* naturals, thresholds are in units of 1/ThresholdScale, quantities and   *)
(* balances of the base asset are in units of 10^-QtyDigits, and           *)
(* round() is round-half-to-even on the exact value.                       *)
(***************************************************************************)
EXTENDS Integers, Sequences, FiniteSets, TLC

(***************************************************************************)
(* Bounds of the model.                                                    *)
(***************************************************************************)
\* Number of invocations (cycles or direct calls) a behaviour starts.
MaxCycles == 2
\* Fractional decimal digits of a base-asset amount (the code formats
\* stepSize with 10 digits; the model's grid is coarser).
QtyDigits == 2

\* Longest price sequence analyze_signal is applied to on its own.
MaxLen == 3
\* Largest short_ma_period, long_ma_period and rsi_period of those calls.
MaxPeriod == 3
\* Largest number of fills in an order response store_trade is applied to.
MaxFills == 2
\* Number of requests one trader object sends in a behaviour of SpecRequest.
MaxRequests == 2

\* Thresholds are stored as fractions (0.003); here in units of 1/1000.
ThresholdScale == 1000

Slots == {1, 2}

(***************************************************************************)
(* Arithmetic helpers.                                                     *)
(***************************************************************************)
Min(a, b) == IF a < b THEN a ELSE b

RECURSIVE Pow10(_)
Pow10(n) == IF n = 0 THEN 1 ELSE 10 * Pow10(n - 1)

RECURSIVE SumSeq(_)
SumSeq(s) == IF s = << >> THEN 0 ELSE Head(s) + SumSeq(Tail(s))

\* Python's s[-k:] for 1 <= k
LastK(s, k) == IF k >= Len(s) THEN s ELSE SubSeq(s, Len(s) - k + 1, Len(s))

\* Python 3 round(): the integer nearest to n/d, ties to the even one
\* (n >= 0, d > 0).
RoundHalfEven(n, d) ==
    LET q == n \div d
        r == n % d
    IN  IF 2 * r < d THEN q
        ELSE IF 2 * r > d THEN q + 1
        ELSE IF q % 2 = 0 THEN q ELSE q + 1

(***************************************************************************)
(* Settings (get_settings_from_db).                                        *)
(***************************************************************************)
SettingKeys ==
    {"notifications_enabled", "buy_threshold", "sell_threshold",
     "short_ma_period", "long_ma_period", "rsi_period", "rsi_overbought",
     "rsi_oversold", "trading_enabled", "trading_mode", "trade_amount_usdt",
     "sell_percentage"}

default_settings ==
    [notifications_enabled |-> TRUE,
     buy_threshold         |-> 3,
     sell_threshold        |-> 3,
     short_ma_period       |-> 7,
     long_ma_period        |-> 25,
     rsi_period            |-> 14,
     rsi_overbought        |-> 70,
     rsi_oversold          |-> 30,
     trading_enabled       |-> FALSE,
     trading_mode          |-> "testnet",
     trade_amount_usdt     |-> 20,
     sell_percentage       |-> 100]

\* merged_settings = default_settings.copy(); merged_settings.update(doc)
MergeSettings(doc) ==
    [k \in SettingKeys |-> IF k \in DOMAIN doc THEN doc[k] ELSE default_settings[k]]

\* The settings document of the store: absent, or a document of overrides.
NoDoc == [absent |-> TRUE]

\* Overrides with periods short enough for the price windows of the model.
DocPeriods == [short_ma_period |-> 2, long_ma_period |-> 3, rsi_period |-> 2]

DocQuiet == [short_ma_period |-> 2, long_ma_period |-> 3, rsi_period |-> 2,
             notifications_enabled |-> FALSE]

DocTrade == [short_ma_period |-> 2, long_ma_period |-> 3, rsi_period |-> 2,
             trading_enabled |-> TRUE]

DocTradeQuiet == [short_ma_period |-> 2, long_ma_period |-> 3, rsi_period |-> 2,
                  trading_enabled |-> TRUE, notifications_enabled |-> FALSE]

DocLiveHalf == [short_ma_period |-> 2, long_ma_period |-> 3, rsi_period |-> 2,
                trading_enabled |-> TRUE, trading_mode |-> "production",
                sell_percentage |-> 50]

\* The sandbox named as the data model names it (trading_mode is one of
\* sandbox, live), not as execute_trade spells it (testnet).
DocSandbox == [short_ma_period |-> 2, long_ma_period |-> 3, rsi_period |-> 2,
               trading_enabled |-> TRUE, trading_mode |-> "sandbox"]

\* The document update_settings.py writes.
new_settings ==
    [buy_threshold         |-> 3,
     sell_threshold        |-> 3,
     short_ma_period       |-> 7,
     long_ma_period        |-> 25,
     rsi_period            |-> 14,
     rsi_overbought        |-> 70,
     rsi_oversold          |-> 30,
     trading_enabled       |-> TRUE,
     trading_mode          |-> "testnet",
     notifications_enabled |-> TRUE,
     trade_amount_usdt     |-> 20,
     sell_percentage       |-> 100]

SettingsDocs ==
    {NoDoc, DocPeriods, DocQuiet, DocTrade, DocTradeQuiet, DocLiveHalf, new_settings}

\* Mutant of get_settings_from_db: the fallback after a failed read has
\* trading switched on.
get_settings_from_db_FallbackTrades(ok, doc) ==
    IF ok /\ doc # NoDoc THEN MergeSettings(doc)
    ELSE IF ok THEN default_settings
    ELSE [default_settings EXCEPT !.trading_enabled = TRUE]

\* What get_settings_from_db returns: the merged settings when the read
\* succeeds and the document has settings, the defaults in every other case
\* (a failed read included: the except branch returns default_settings).
get_settings_from_db(ok, doc) ==
    IF ok /\ doc # NoDoc THEN MergeSettings(doc) ELSE default_settings

(***************************************************************************)
(* Indicators (calculate_moving_average, calculate_rsi).                   *)
(* A rational is a record [num, den]; "insufficient data" is none = TRUE.  *)
(***************************************************************************)
\* Mutant of calculate_moving_average: the first `period` prices are averaged,
\* prices[:period].
calculate_moving_average_FirstK(prices, period) ==
    IF Len(prices) < period
    THEN [none |-> TRUE, num |-> 0, den |-> 1]
    ELSE [none |-> FALSE,
          num  |-> SumSeq(SubSeq(prices, 1, period)),
          den  |-> period]

calculate_moving_average(prices, period) ==
    IF Len(prices) < period
    THEN [none |-> TRUE, num |-> 0, den |-> 1]
    ELSE [none |-> FALSE,
          num  |-> SumSeq(LastK(prices, period)),
          den  |-> Len(LastK(prices, period))]

\* gains[i], losses[i] of the price changes, i in 1..Len(prices)-1
Gains(prices) ==
    [i \in 1..(Len(prices) - 1) |->
        IF prices[i + 1] - prices[i] > 0 THEN prices[i + 1] - prices[i] ELSE 0]

Losses(prices) ==
    [i \in 1..(Len(prices) - 1) |->
        IF prices[i + 1] - prices[i] > 0 THEN 0 ELSE prices[i] - prices[i + 1]]

\* Mutant of calculate_rsi: a window without losses is answered with the
\* neutral 50.
calculate_rsi_NeutralWithoutLoss(prices, period) ==
    IF Len(prices) < period + 1 THEN [num |-> 50, den |-> 1]
    ELSE LET g == SumSeq(LastK(Gains(prices), period))
             l == SumSeq(LastK(Losses(prices), period))
         IN  IF l = 0 THEN [num |-> 50, den |-> 1]
             ELSE [num |-> 100 * g, den |-> g + l]

calculate_rsi(prices, period) ==
    IF Len(prices) < period + 1 THEN [num |-> 50, den |-> 1]
    ELSE IF Len(Gains(prices)) < period THEN [num |-> 50, den |-> 1]
    ELSE LET g == SumSeq(LastK(Gains(prices), period))
             l == SumSeq(LastK(Losses(prices), period))
         IN  \* avg_loss == 0 -> 100; else 100 - 100/(1 + avg_gain/avg_loss)
             IF l = 0 THEN [num |-> 100, den |-> 1]
             ELSE [num |-> 100 * g, den |-> g + l]

(***************************************************************************)
(* analyze_signal.  confidence is in hundredths (round(confidence, 2)).    *)
(* raised = TRUE: the function raises (formatting a None moving average).  *)
(***************************************************************************)
LastPrice(prices) == IF prices = << >> THEN 0 ELSE prices[Len(prices)]

\* Mutant of analyze_signal: no early return, every call answers with the
\* HOLD of confidence 50 the classification starts from.
analyze_signal_NoEarlyReturn(prices, s) ==
    [type |-> "HOLD", price |-> LastPrice(prices), confidence |-> 5000,
     raised |-> FALSE, indicators |-> TRUE]

\* Mutant of analyze_signal: the moving averages alone classify, the RSI is
\* not consulted.
analyze_signal_MAOnly(prices, s) ==
    LET short_ma == calculate_moving_average(prices, s.short_ma_period)
        long_ma  == calculate_moving_average(prices, s.long_ma_period)
        lhs      == short_ma.num * long_ma.den * ThresholdScale
        rhs      == long_ma.num * short_ma.den
    IN  [type |-> IF Len(prices) < s.long_ma_period \/ short_ma.none THEN "HOLD"
                  ELSE IF lhs < rhs * (ThresholdScale - s.buy_threshold) THEN "BUY"
                  ELSE IF lhs > rhs * (ThresholdScale + s.sell_threshold) THEN "SELL"
                  ELSE "HOLD",
         price |-> LastPrice(prices),
         confidence |-> IF Len(prices) < s.long_ma_period THEN 0 ELSE 5000,
         raised |-> Len(prices) >= s.long_ma_period /\ short_ma.none,
         indicators |-> Len(prices) >= s.long_ma_period]

\* The result: type, price, confidence; raised when the function raises;
\* indicators when the result carries short_ma, long_ma and rsi.
\* Mutant of analyze_signal: the confidence is not capped at 100.
analyze_signal_Uncapped(prices, s) ==
    IF Len(prices) < s.long_ma_period
    THEN [type |-> "HOLD", price |-> LastPrice(prices), confidence |-> 0,
          raised |-> FALSE, indicators |-> FALSE]
    ELSE
      LET short_ma == calculate_moving_average(prices, s.short_ma_period)
          long_ma  == calculate_moving_average(prices, s.long_ma_period)
          rsi      == calculate_rsi(prices, s.rsi_period)
          \* short_ma < long_ma * (1 - buy_threshold)
          ma_buy_signal ==
              short_ma.num * long_ma.den * ThresholdScale
                < long_ma.num * short_ma.den * (ThresholdScale - s.buy_threshold)
          \* short_ma > long_ma * (1 + sell_threshold)
          ma_sell_signal ==
              short_ma.num * long_ma.den * ThresholdScale
                > long_ma.num * short_ma.den * (ThresholdScale + s.sell_threshold)
          rsi_buy_signal  == rsi.num < s.rsi_oversold * rsi.den
          rsi_sell_signal == rsi.num > s.rsi_overbought * rsi.den
          \* 50 + (rsi_oversold - rsi) * 2, in hundredths
          buy_conf ==
              RoundHalfEven(
                  100 * (50 * rsi.den + 2 * (s.rsi_oversold * rsi.den - rsi.num)),
                  rsi.den)
          sell_conf ==
              RoundHalfEven(
                  100 * (50 * rsi.den + 2 * (rsi.num - s.rsi_overbought * rsi.den)),
                  rsi.den)
      IN  IF short_ma.none \/ long_ma.none
          THEN [type |-> "HOLD", price |-> LastPrice(prices), confidence |-> 0,
                raised |-> TRUE, indicators |-> TRUE]
          ELSE IF ma_buy_signal /\ rsi_buy_signal
          THEN [type |-> "BUY", price |-> LastPrice(prices),
                confidence |-> buy_conf, raised |-> FALSE, indicators |-> TRUE]
          ELSE IF ma_sell_signal /\ rsi_sell_signal
          THEN [type |-> "SELL", price |-> LastPrice(prices),
                confidence |-> sell_conf, raised |-> FALSE, indicators |-> TRUE]
          ELSE [type |-> "HOLD", price |-> LastPrice(prices),
                confidence |-> 5000, raised |-> FALSE, indicators |-> TRUE]

analyze_signal(prices, s) ==
    IF Len(prices) < s.long_ma_period
    THEN [type |-> "HOLD", price |-> LastPrice(prices), confidence |-> 0,
          raised |-> FALSE, indicators |-> FALSE]
    ELSE
      LET short_ma == calculate_moving_average(prices, s.short_ma_period)
          long_ma  == calculate_moving_average(prices, s.long_ma_period)
          rsi      == calculate_rsi(prices, s.rsi_period)
          \* short_ma < long_ma * (1 - buy_threshold)
          ma_buy_signal ==
              short_ma.num * long_ma.den * ThresholdScale
                < long_ma.num * short_ma.den * (ThresholdScale - s.buy_threshold)
          \* short_ma > long_ma * (1 + sell_threshold)
          ma_sell_signal ==
              short_ma.num * long_ma.den * ThresholdScale
                > long_ma.num * short_ma.den * (ThresholdScale + s.sell_threshold)
          rsi_buy_signal  == rsi.num < s.rsi_oversold * rsi.den
          rsi_sell_signal == rsi.num > s.rsi_overbought * rsi.den
          \* min(100, 50 + (rsi_oversold - rsi) * 2), in hundredths
          buy_conf ==
              Min(10000, RoundHalfEven(
                  100 * (50 * rsi.den + 2 * (s.rsi_oversold * rsi.den - rsi.num)),
                  rsi.den))
          sell_conf ==
              Min(10000, RoundHalfEven(
                  100 * (50 * rsi.den + 2 * (rsi.num - s.rsi_overbought * rsi.den)),
                  rsi.den))
      IN  IF short_ma.none \/ long_ma.none
          THEN [type |-> "HOLD", price |-> LastPrice(prices), confidence |-> 0,
                raised |-> TRUE, indicators |-> TRUE]
          ELSE IF ma_buy_signal /\ rsi_buy_signal
          THEN [type |-> "BUY", price |-> LastPrice(prices),
                confidence |-> buy_conf, raised |-> FALSE, indicators |-> TRUE]
          ELSE IF ma_sell_signal /\ rsi_sell_signal
          THEN [type |-> "SELL", price |-> LastPrice(prices),
                confidence |-> sell_conf, raised |-> FALSE, indicators |-> TRUE]
          ELSE [type |-> "HOLD", price |-> LastPrice(prices),
                confidence |-> 5000, raised |-> FALSE, indicators |-> TRUE]

\* The price windows the price store answers with (ascending by time).
PriceWindows ==
    {<< >>, <<100, 100>>, <<100, 100, 100>>, <<100, 100, 90>>, <<100, 100, 110>>}


(***************************************************************************)
(* Exchange quantities (BinanceSpotTrader.calculate_quantity and the       *)
(* sizing of execute_sell_signal).  Amounts of the base asset are naturals *)
(* in units of 10^-QtyDigits; a LOT_SIZE filter is [minQty, maxQty,        *)
(* stepSize] in the same units, stepSize > 0.                              *)
(***************************************************************************)
RECURSIVE TrailingZeros(_, _)
TrailingZeros(n, limit) ==
    IF limit = 0 \/ n % 10 # 0 THEN 0 ELSE 1 + TrailingZeros(n \div 10, limit - 1)

\* step_size_str = f"{step_size:.10f}".rstrip('0');
\* decimals = len(step_size_str.split('.')[-1]): the fractional digits of
\* stepSize that are left once its trailing zeros are stripped.
StepDecimals(step_size) == QtyDigits - TrailingZeros(step_size, QtyDigits)

\* round(quantity, decimals)
RoundDecimals(quantity, decimals) ==
    RoundHalfEven(quantity, Pow10(QtyDigits - decimals)) * Pow10(QtyDigits - decimals)

\* Mutant of calculate_quantity: the quantity is not compared with minQty and
\* maxQty.
calculate_quantity_NoClamp(usdt_amount, current_price, lot) ==
    RoundDecimals(RoundHalfEven(usdt_amount * Pow10(QtyDigits),
                                current_price * lot.stepSize) * lot.stepSize,
                  StepDecimals(lot.stepSize))

\* Mutant of calculate_quantity: the step above the raw quantity is taken in
\* place of the nearest one.
calculate_quantity_StepAbove(usdt_amount, current_price, lot) ==
    LET above   == ((usdt_amount * Pow10(QtyDigits))
                        \div (current_price * lot.stepSize) + 1) * lot.stepSize
        clamped == IF above < lot.minQty THEN lot.minQty
                   ELSE IF above > lot.maxQty THEN lot.maxQty
                   ELSE above
    IN  RoundDecimals(clamped, StepDecimals(lot.stepSize))

\* Mutant of calculate_quantity: the raw quantity is cut down to the step
\* below it, not rounded to the nearest one.
calculate_quantity_StepBelow(usdt_amount, current_price, lot) ==
    LET below   == ((usdt_amount * Pow10(QtyDigits))
                        \div (current_price * lot.stepSize)) * lot.stepSize
        clamped == IF below < lot.minQty THEN lot.minQty
                   ELSE IF below > lot.maxQty THEN lot.maxQty
                   ELSE below
    IN  RoundDecimals(clamped, StepDecimals(lot.stepSize))

\* calculate_quantity once the price and the LOT_SIZE filter are known.
calculate_quantity(usdt_amount, current_price, lot) ==
    LET \* raw_quantity = usdt_amount / current_price;
        \* round(raw_quantity / step_size) * step_size
        rounded == RoundHalfEven(usdt_amount * Pow10(QtyDigits),
                                 current_price * lot.stepSize) * lot.stepSize
        clamped == IF rounded < lot.minQty THEN lot.minQty
                   ELSE IF rounded > lot.maxQty THEN lot.maxQty
                   ELSE rounded
    IN  RoundDecimals(clamped, StepDecimals(lot.stepSize))

\* execute_sell_signal: free * (btc_percentage / 100), rounded to the step
\* and to the step's decimals; no comparison with minQty or maxQty.
sell_quantity(free, btc_percentage, lot) ==
    LET rounded == RoundHalfEven(free * btc_percentage, 100 * lot.stepSize)
                     * lot.stepSize
    IN  RoundDecimals(rounded, StepDecimals(lot.stepSize))

(***************************************************************************)
(* What the exchange answers (environment).                                *)
(***************************************************************************)
NoRules == [minQty |-> 0, maxQty |-> 0, stepSize |-> 1]

LotSizeRules ==
    {[minQty |-> 1,  maxQty |-> 900, stepSize |-> 1],
     [minQty |-> 10, maxQty |-> 900, stepSize |-> 10]}

\* free USDT, whole units
UsdtBalances == {5, 20}

\* free BTC, in units of 10^-QtyDigits
BtcBalances == {0, 4, 6}

\* USDT per BTC
ExchangePrices == {3, 8}

(***************************************************************************)
(* Error texts (str(e) of the exception execute_trade catches).            *)
(***************************************************************************)
ErrCredentials  == "secret could not be read"
ErrAccount      == "account request failed"
ErrInsufficient == "Insufficient USDT balance"
ErrNoBTC        == "No BTC available to sell"
ErrPrice        == "price request failed"
ErrRules        == "exchangeInfo request failed"
ErrOrder        == "order request failed"
ErrStoreTrade   == "trade could not be stored"

(***************************************************************************)
(* State.                                                                  *)
(***************************************************************************)
VARIABLES
    db_settings,     \* settings store: the document with _id 'default'
    signals,         \* signal store, in insertion (= timestamp) order
    trades,          \* trade store
    failed_trades,   \* failed-trade store
    notifications,   \* notification store
    firebase_app,    \* per process: the module global firebase_app is set
    inv,             \* per process: the running invocation's locals
    ncycles,         \* invocations started so far
    prev             \* what the latest finished cycle persisted

vars == <<db_settings, signals, trades, failed_trades, notifications,
          firebase_app, inv, ncycles, prev>>

NoSignal     == [id |-> 0, type |-> "NONE"]
NoSignalData == [type |-> "NONE", price |-> 0, confidence |-> 0]

IdleEt ==
    [entered |-> FALSE, is_testnet |-> TRUE, balance |-> 0, price |-> 0,
     rules |-> NoRules, quantity |-> 0, result |-> "NONE", error |-> "",
     raised |-> FALSE, returned |-> FALSE, retval |-> "NONE"]

IdleInv ==
    [pc |-> "idle", caller |-> "none", settings |-> default_settings,
     prices |-> << >>, signal_data |-> NoSignalData, last_signal |-> NoSignal,
     signal_id |-> 0, signal_changed |-> FALSE, trade_executed |-> FALSE,
     should_notify |-> FALSE, sent |-> FALSE, status |-> 0, calls |-> << >>,
     read_last |-> FALSE, decided |-> FALSE, et |-> IdleEt]

\* Before the first invocation: the settings store holds one of docs, the
\* other stores are empty, no process has served an invocation.
InitWith(docs) ==
    /\ db_settings \in docs
    /\ signals = << >>
    /\ trades = << >>
    /\ failed_trades = << >>
    /\ notifications = << >>
    /\ firebase_app = [p \in Slots |-> FALSE]
    /\ inv = [p \in Slots |-> IdleInv]
    /\ ncycles = 0
    /\ prev = [persisted |-> "NONE"]

Init == InitWith(SettingsDocs)

Call(op, host, qty, ok) == [op |-> op, host |-> host, qty |-> qty, ok |-> ok]

\* One invocation's locals change; the stores are named by the caller.
Upd(p, r) == inv' = [inv EXCEPT ![p] = r]

Logged(r, c) == [r EXCEPT !.calls = Append(@, c)]

\* lambda_handler's return: 'statusCode': 200 / 500
Finish(r, code) == [r EXCEPT !.pc = "done", !.status = code]


(***************************************************************************)
(* lambda_handler, up to the transition flag.                              *)
(***************************************************************************)
\* A cycle is triggered.  Cycles do not overlap: no other invocation runs.
StartCycle(p) ==
    /\ p = 1
    /\ ncycles < MaxCycles
    /\ \A q \in Slots : inv[q].pc = "idle"
    /\ ncycles' = ncycles + 1
    /\ Upd(p, [IdleInv EXCEPT !.pc = "settings", !.caller = "handler"])
    /\ UNCHANGED <<db_settings, signals, trades, failed_trades, notifications,
                   firebase_app, prev>>

\* settings = get_settings_from_db()
GetSettings(p) ==
    /\ inv[p].pc = "settings"
    /\ \E ok \in BOOLEAN :
          Upd(p, [inv[p] EXCEPT !.settings = get_settings_from_db(ok, db_settings),
                                !.pc = "prices"])
    /\ UNCHANGED <<db_settings, signals, trades, failed_trades, notifications,
                   firebase_app, ncycles, prev>>

\* Mutant of GetRecentPrices: no early return on an empty result.
GetRecentPrices_NoEmptyCheck(p) ==
    /\ inv[p].pc = "prices"
    /\ \E ok \in BOOLEAN, w \in PriceWindows :
          Upd(p, IF ~ok THEN Finish(inv[p], 500)
                 ELSE [inv[p] EXCEPT !.prices = w, !.pc = "analyze"])
    /\ UNCHANGED <<db_settings, signals, trades, failed_trades, notifications,
                   firebase_app, ncycles, prev>>

\* prices = get_recent_prices(minutes=30); if not prices: return 200
GetRecentPrices(p) ==
    /\ inv[p].pc = "prices"
    /\ \E ok \in BOOLEAN, w \in PriceWindows :
          Upd(p, IF ~ok THEN Finish(inv[p], 500)
                 ELSE IF w = << >> THEN Finish(inv[p], 200)
                 ELSE [inv[p] EXCEPT !.prices = w, !.pc = "analyze"])
    /\ UNCHANGED <<db_settings, signals, trades, failed_trades, notifications,
                   firebase_app, ncycles, prev>>

\* Mutant of AfterStep: the new signal is stored before the last one is read.
AfterStep_StoreFirst(step) ==
    CASE step = "analyze"  -> "store"
      [] step = "store"    -> "get_last"
      [] step = "get_last" -> "decide"

\* The order of lambda_handler's statements from the classification to the
\* transition flag: get_last_signal, then store_signal, then the flag.
AfterStep(step) ==
    CASE step = "analyze"  -> "get_last"
      [] step = "get_last" -> "store"
      [] step = "store"    -> "decide"

\* signal_data = analyze_signal(prices, ...)
Analyze(p) ==
    /\ inv[p].pc = "analyze"
    /\ LET sd == analyze_signal(inv[p].prices, inv[p].settings)
       IN  Upd(p, IF sd.raised THEN Finish(inv[p], 500)
                  ELSE [inv[p] EXCEPT
                          !.signal_data = [type |-> sd.type, price |-> sd.price,
                                           confidence |-> sd.confidence],
                          !.pc = AfterStep("analyze")])
    /\ UNCHANGED <<db_settings, signals, trades, failed_trades, notifications,
                   firebase_app, ncycles, prev>>

\* collection.find_one({}, sort=[('timestamp', -1)])
find_latest(store) ==
    IF store = << >> THEN NoSignal
    ELSE [id |-> store[Len(store)].id, type |-> store[Len(store)].type]

\* get_last_signal(): the latest signal, None when there is none and None
\* when the read fails (the except branch returns None).
get_last_signal(ok, store) == IF ok THEN find_latest(store) ELSE NoSignal

GetLastSignal(p) ==
    /\ inv[p].pc = "get_last"
    /\ \E ok \in BOOLEAN :
          Upd(p, [inv[p] EXCEPT !.last_signal = get_last_signal(ok, signals),
                                !.read_last = TRUE,
                                !.pc = AfterStep("get_last")])
    /\ UNCHANGED <<db_settings, signals, trades, failed_trades, notifications,
                   firebase_app, ncycles, prev>>

\* Mutant of StoreSignal: a failed insert is not raised, the cycle goes on
\* without a signal id.
StoreSignal_IgnoreFailure(p) ==
    /\ inv[p].pc = "store"
    /\ \E ok \in BOOLEAN :
          IF ok
          THEN /\ signals' = Append(signals,
                     [id |-> Len(signals) + 1, type |-> inv[p].signal_data.type])
               /\ Upd(p, [inv[p] EXCEPT !.signal_id = Len(signals) + 1,
                                        !.pc = AfterStep("store")])
          ELSE /\ signals' = signals
               /\ Upd(p, [inv[p] EXCEPT !.pc = AfterStep("store")])
    /\ UNCHANGED <<db_settings, trades, failed_trades, notifications,
                   firebase_app, ncycles, prev>>

\* signal_id = store_signal(signal_data): insert_one, or raise
StoreSignal(p) ==
    /\ inv[p].pc = "store"
    /\ \E ok \in BOOLEAN :
          IF ok
          THEN /\ signals' = Append(signals,
                     [id |-> Len(signals) + 1, type |-> inv[p].signal_data.type])
               /\ Upd(p, [inv[p] EXCEPT !.signal_id = Len(signals) + 1,
                                        !.pc = AfterStep("store")])
          ELSE /\ signals' = signals
               /\ Upd(p, Finish(inv[p], 500))
    /\ UNCHANGED <<db_settings, trades, failed_trades, notifications,
                   firebase_app, ncycles, prev>>

\* Mutant of SignalChanged: any difference from the last type is a transition.
SignalChanged_AnyDifference(last, type) == last = NoSignal \/ last.type # type

\* signal_changed = type in ['BUY', 'SELL'] and
\*                  (last_signal is None or last_signal.get('type') != type)
SignalChanged(last, type) ==
    /\ type \in {"BUY", "SELL"}
    /\ (last = NoSignal \/ last.type # type)

\* Mutant of Decide: the flag is computed from the store as it is when the
\* flag is computed (the cycle's own record left out), not from the snapshot.
Decide_Reread(p) ==
    /\ inv[p].pc = "decide"
    /\ LET others  == SelectSeq(signals, LAMBDA s : s.id # inv[p].signal_id)
           changed == SignalChanged(find_latest(others), inv[p].signal_data.type)
       IN  Upd(p, [inv[p] EXCEPT
                     !.signal_changed = changed,
                     !.decided = TRUE,
                     !.pc = IF changed /\ inv[p].settings.trading_enabled
                            THEN "et_enter" ELSE "notify"])
    /\ UNCHANGED <<db_settings, signals, trades, failed_trades, notifications,
                   firebase_app, ncycles, prev>>

\* The flag, and the guard of the trade attempt:
\* if signal_changed and settings.get('trading_enabled', False)
Decide(p) ==
    /\ inv[p].pc = "decide"
    /\ LET changed == SignalChanged(inv[p].last_signal, inv[p].signal_data.type)
       IN  Upd(p, [inv[p] EXCEPT
                     !.signal_changed = changed,
                     !.decided = TRUE,
                     !.pc = IF changed /\ inv[p].settings.trading_enabled
                            THEN "et_enter" ELSE "notify"])
    /\ UNCHANGED <<db_settings, signals, trades, failed_trades, notifications,
                   firebase_app, ncycles, prev>>


(***************************************************************************)
(* execute_trade(signal_data, signal_id, settings) and the trader calls it *)
(* makes.  Every exception raised inside its try block is caught by its    *)
(* except branch, which calls store_failed_trade and returns None.         *)
(***************************************************************************)
\* An exception with text err is raised inside execute_trade's try block.
Raise(r, err) ==
    [r EXCEPT !.et.error = err, !.et.raised = TRUE, !.pc = "et_failed"]

\* execute_trade returns res ("NONE": None, "ORDER": the order's response).
\* In lambda_handler: trade_executed = trade_result is not None.
ReturnFromTrade(r, res) ==
    [r EXCEPT !.et.returned = TRUE,
              !.et.retval = res,
              !.trade_executed = (r.caller = "handler" /\ res # "NONE"),
              !.pc = IF r.caller = "handler" THEN "notify" ELSE "done"]

ExchangeHost(r) == IF r.et.is_testnet THEN "testnet" ELSE "production"

\* Mutant of ExecuteTradeEnter: trading_enabled is not looked at.
ExecuteTradeEnter_NoEnabledCheck(p) ==
    /\ inv[p].pc = "et_enter"
    /\ LET r == [inv[p] EXCEPT !.et.entered = TRUE]
       IN  Upd(p, IF r.signal_data.type \notin {"BUY", "SELL"}
                  THEN ReturnFromTrade(r, "NONE")
                  ELSE [r EXCEPT !.et.is_testnet =
                                    (r.settings.trading_mode = "testnet"),
                                 !.pc = "et_creds"])
    /\ UNCHANGED <<db_settings, signals, trades, failed_trades, notifications,
                   firebase_app, ncycles, prev>>

\* The two early returns, then is_testnet.
ExecuteTradeEnter(p) ==
    /\ inv[p].pc = "et_enter"
    /\ LET r == [inv[p] EXCEPT !.et.entered = TRUE]
       IN  Upd(p, IF ~r.settings.trading_enabled THEN ReturnFromTrade(r, "NONE")
                  ELSE IF r.signal_data.type \notin {"BUY", "SELL"}
                       THEN ReturnFromTrade(r, "NONE")
                  ELSE [r EXCEPT !.et.is_testnet =
                                    (r.settings.trading_mode = "testnet"),
                                 !.pc = "et_creds"])
    /\ UNCHANGED <<db_settings, signals, trades, failed_trades, notifications,
                   firebase_app, ncycles, prev>>

\* credentials = get_binance_credentials_from_aws(testnet=is_testnet);
\* trader = BinanceSpotTrader(..., testnet=is_testnet)
GetCredentials(p) ==
    /\ inv[p].pc = "et_creds"
    /\ \E ok \in BOOLEAN :
          LET r == Logged(inv[p], Call("secret", ExchangeHost(inv[p]), 0, ok))
          IN  Upd(p, IF ok THEN [r EXCEPT !.pc = "et_ping"]
                     ELSE Raise(r, ErrCredentials))
    /\ UNCHANGED <<db_settings, signals, trades, failed_trades, notifications,
                   firebase_app, ncycles, prev>>

\* Mutant of AfterProbe: the balance is not read.
AfterProbe_SkipBalance(ok, type) ==
    IF type = "BUY" THEN "buy_price" ELSE "sell_rules"

\* The statement that follows trader.test_connection() in execute_trade.
\* test_connection returns True or False and never raises; execute_trade
\* does not read what it returns.
AfterProbe(ok, type) == IF type = "BUY" THEN "buy_balance" ELSE "sell_balance"

TestConnection(p) ==
    /\ inv[p].pc = "et_ping"
    /\ \E ok \in BOOLEAN :
          LET r == Logged(inv[p], Call("ping", ExchangeHost(inv[p]), 0, ok))
          IN  Upd(p, [r EXCEPT !.pc = AfterProbe(ok, r.signal_data.type)])
    /\ UNCHANGED <<db_settings, signals, trades, failed_trades, notifications,
                   firebase_app, ncycles, prev>>

\* Mutant of BuyBalance: the balance is read and not compared.
BuyBalance_NoCheck(p) ==
    /\ inv[p].pc = "buy_balance"
    /\ \E ok \in BOOLEAN, free \in UsdtBalances :
          LET r == Logged(inv[p], Call("account", ExchangeHost(inv[p]), 0, ok))
          IN  Upd(p, IF ~ok THEN Raise(r, ErrAccount)
                     ELSE [r EXCEPT !.et.balance = free, !.pc = "buy_price"])
    /\ UNCHANGED <<db_settings, signals, trades, failed_trades, notifications,
                   firebase_app, ncycles, prev>>

\* execute_buy_signal: usdt_balance = self.get_balance('USDT');
\* if usdt_balance['free'] < usdt_amount: raise ValueError(...)
BuyBalance(p) ==
    /\ inv[p].pc = "buy_balance"
    /\ \E ok \in BOOLEAN, free \in UsdtBalances :
          LET r == Logged(inv[p], Call("account", ExchangeHost(inv[p]), 0, ok))
          IN  Upd(p, IF ~ok THEN Raise(r, ErrAccount)
                     ELSE IF free < r.settings.trade_amount_usdt
                          THEN Raise([r EXCEPT !.et.balance = free], ErrInsufficient)
                     ELSE [r EXCEPT !.et.balance = free, !.pc = "buy_price"])
    /\ UNCHANGED <<db_settings, signals, trades, failed_trades, notifications,
                   firebase_app, ncycles, prev>>

\* current_price = self.get_current_price(symbol)
BuyPrice(p) ==
    /\ inv[p].pc = "buy_price"
    /\ \E ok \in BOOLEAN, price \in ExchangePrices :
          LET r == Logged(inv[p], Call("price", ExchangeHost(inv[p]), 0, ok))
          IN  Upd(p, IF ~ok THEN Raise(r, ErrPrice)
                     ELSE [r EXCEPT !.et.price = price, !.pc = "buy_rules"])
    /\ UNCHANGED <<db_settings, signals, trades, failed_trades, notifications,
                   firebase_app, ncycles, prev>>

\* quantity = self.calculate_quantity(symbol, usdt_amount, current_price):
\* get_symbol_info, then the LOT_SIZE arithmetic
BuyRules(p) ==
    /\ inv[p].pc = "buy_rules"
    /\ \E ok \in BOOLEAN, lot \in LotSizeRules :
          LET r == Logged(inv[p], Call("exchangeInfo", ExchangeHost(inv[p]), 0, ok))
          IN  Upd(p, IF ~ok THEN Raise(r, ErrRules)
                     ELSE [r EXCEPT
                             !.et.rules = lot,
                             !.et.quantity = calculate_quantity(
                                 r.settings.trade_amount_usdt, r.et.price, lot),
                             !.pc = "order"])
    /\ UNCHANGED <<db_settings, signals, trades, failed_trades, notifications,
                   firebase_app, ncycles, prev>>

\* Mutant of SellBalance: free < 0 in place of free <= 0.
SellBalance_StrictCheck(p) ==
    /\ inv[p].pc = "sell_balance"
    /\ \E ok \in BOOLEAN, free \in BtcBalances :
          LET r == Logged(inv[p], Call("account", ExchangeHost(inv[p]), 0, ok))
          IN  Upd(p, IF ~ok THEN Raise(r, ErrAccount)
                     ELSE IF free < 0
                          THEN Raise([r EXCEPT !.et.balance = free], ErrNoBTC)
                     ELSE [r EXCEPT !.et.balance = free, !.pc = "sell_rules"])
    /\ UNCHANGED <<db_settings, signals, trades, failed_trades, notifications,
                   firebase_app, ncycles, prev>>

\* execute_sell_signal: btc_balance = self.get_balance('BTC');
\* if btc_balance['free'] <= 0: raise ValueError("No BTC available to sell")
SellBalance(p) ==
    /\ inv[p].pc = "sell_balance"
    /\ \E ok \in BOOLEAN, free \in BtcBalances :
          LET r == Logged(inv[p], Call("account", ExchangeHost(inv[p]), 0, ok))
          IN  Upd(p, IF ~ok THEN Raise(r, ErrAccount)
                     ELSE IF free <= 0
                          THEN Raise([r EXCEPT !.et.balance = free], ErrNoBTC)
                     ELSE [r EXCEPT !.et.balance = free, !.pc = "sell_rules"])
    /\ UNCHANGED <<db_settings, signals, trades, failed_trades, notifications,
                   firebase_app, ncycles, prev>>

\* symbol_info = self.get_symbol_info(symbol), then the sizing
SellRules(p) ==
    /\ inv[p].pc = "sell_rules"
    /\ \E ok \in BOOLEAN, lot \in LotSizeRules :
          LET r == Logged(inv[p], Call("exchangeInfo", ExchangeHost(inv[p]), 0, ok))
          IN  Upd(p, IF ~ok THEN Raise(r, ErrRules)
                     ELSE [r EXCEPT
                             !.et.rules = lot,
                             !.et.quantity = sell_quantity(
                                 r.et.balance, r.settings.sell_percentage, lot),
                             !.pc = "sell_price"])
    /\ UNCHANGED <<db_settings, signals, trades, failed_trades, notifications,
                   firebase_app, ncycles, prev>>

\* current_price = self.get_current_price(symbol): the price is read for the
\* estimate that is printed and for nothing else
SellPrice(p) ==
    /\ inv[p].pc = "sell_price"
    /\ \E ok \in BOOLEAN :
          LET r == Logged(inv[p], Call("price", ExchangeHost(inv[p]), 0, ok))
          IN  Upd(p, IF ~ok THEN Raise(r, ErrPrice) ELSE [r EXCEPT !.pc = "order"])
    /\ UNCHANGED <<db_settings, signals, trades, failed_trades, notifications,
                   firebase_app, ncycles, prev>>

\* Mutant of PlaceOrder: the exchange's rejection is not raised.
PlaceOrder_IgnoreReject(p) ==
    /\ inv[p].pc = "order"
    /\ \E ok \in BOOLEAN :
          LET r == Logged(inv[p], Call("order", ExchangeHost(inv[p]),
                                       inv[p].et.quantity, ok))
          IN  Upd(p, [r EXCEPT !.et.result = "ORDER", !.pc = "et_store"])
    /\ UNCHANGED <<db_settings, signals, trades, failed_trades, notifications,
                   firebase_app, ncycles, prev>>

\* order_result = self.place_market_order(symbol, side, quantity)
PlaceOrder(p) ==
    /\ inv[p].pc = "order"
    /\ \E ok \in BOOLEAN :
          LET r == Logged(inv[p], Call("order", ExchangeHost(inv[p]),
                                       inv[p].et.quantity, ok))
          IN  Upd(p, IF ~ok THEN Raise(r, ErrOrder)
                     ELSE [r EXCEPT !.et.result = "ORDER", !.pc = "et_store"])
    /\ UNCHANGED <<db_settings, signals, trades, failed_trades, notifications,
                   firebase_app, ncycles, prev>>

\* if trade_result: store_trade(trade_result, signal_id, signal_data): a
\* failed insert is raised again by store_trade; return trade_result
StoreTrade(p) ==
    /\ inv[p].pc = "et_store"
    /\ \E ok \in BOOLEAN :
          LET r == Logged(inv[p], Call("insert_trade", "mongo", 0, ok))
          IN  IF ok
              THEN /\ trades' = Append(trades,
                         [signal_id |-> r.signal_id,
                          side |-> r.signal_data.type])
                   /\ Upd(p, ReturnFromTrade(r, "ORDER"))
              ELSE /\ trades' = trades
                   /\ Upd(p, Raise(r, ErrStoreTrade))
    /\ UNCHANGED <<db_settings, signals, failed_trades, notifications,
                   firebase_app, ncycles, prev>>

\* Mutant of AfterFailedStoreError: store_failed_trade raises again, as
\* store_trade does, and the exception reaches lambda_handler's except.
AfterFailedStoreError_Reraise(r) == Finish(r, 500)

\* What store_failed_trade does when its insert fails: its except branch
\* prints and returns, so execute_trade goes on to return None.
AfterFailedStoreError(r) == ReturnFromTrade(r, "NONE")

\* except Exception as e: store_failed_trade(signal_data, signal_id, str(e));
\* return None
StoreFailedTrade(p) ==
    /\ inv[p].pc = "et_failed"
    /\ \E ok \in BOOLEAN :
          LET r == Logged(inv[p], Call("insert_failed_trade", "mongo", 0, ok))
          IN  IF ok
              THEN /\ failed_trades' = Append(failed_trades,
                         [signal_id |-> r.signal_id,
                          signal_type |-> r.signal_data.type,
                          error |-> r.et.error])
                   /\ Upd(p, ReturnFromTrade(r, "NONE"))
              ELSE /\ failed_trades' = failed_trades
                   /\ Upd(p, AfterFailedStoreError(r))
    /\ UNCHANGED <<db_settings, signals, trades, notifications,
                   firebase_app, ncycles, prev>>


(***************************************************************************)
(* lambda_handler, from the notification to the return.                    *)
(***************************************************************************)
\* Mutant of ShouldNotify: a notification also needs an executed trade.
ShouldNotify_NeedsTrade(r) ==
    r.settings.notifications_enabled /\ r.signal_changed /\ r.trade_executed

\* should_notify = settings['notifications_enabled'] and signal_changed
ShouldNotify(r) == r.settings.notifications_enabled /\ r.signal_changed

Notify(p) ==
    /\ inv[p].pc = "notify"
    /\ LET r == [inv[p] EXCEPT !.should_notify = ShouldNotify(inv[p])]
       IN  Upd(p, IF r.should_notify THEN [r EXCEPT !.pc = "fcm_init"]
                  ELSE Finish(r, 200))
    /\ UNCHANGED <<db_settings, signals, trades, failed_trades, notifications,
                   firebase_app, ncycles, prev>>

\* send_notification: the type check, then initialize_firebase(), which
\* reads the secret only while the global firebase_app is None.  Whatever
\* send_notification raises it catches (return False); lambda_handler does
\* not read what it returns.
NotifyInit(p) ==
    /\ inv[p].pc = "fcm_init"
    /\ \E ok \in BOOLEAN :
          IF inv[p].signal_data.type \notin {"BUY", "SELL"}
          THEN /\ firebase_app' = firebase_app
               /\ Upd(p, Finish(inv[p], 200))
          ELSE IF firebase_app[p]
          THEN /\ firebase_app' = firebase_app
               /\ Upd(p, [inv[p] EXCEPT !.pc = "fcm_send"])
          ELSE /\ firebase_app' = [firebase_app EXCEPT ![p] = ok]
               /\ LET r == Logged(inv[p], Call("fcm_secret", "aws", 0, ok))
                  IN  Upd(p, IF ok THEN [r EXCEPT !.pc = "fcm_send"]
                             ELSE Finish(r, 200))
    /\ UNCHANGED <<db_settings, signals, trades, failed_trades, notifications,
                   ncycles, prev>>

\* response = messaging.send(message)
NotifySend(p) ==
    /\ inv[p].pc = "fcm_send"
    /\ \E ok \in BOOLEAN :
          LET r == Logged(inv[p], Call("fcm_send", "fcm", 0, ok))
          IN  Upd(p, IF ok THEN [r EXCEPT !.sent = TRUE, !.pc = "fcm_store"]
                     ELSE Finish(r, 200))
    /\ UNCHANGED <<db_settings, signals, trades, failed_trades, notifications,
                   firebase_app, ncycles, prev>>

\* collection.insert_one(notification_doc)
NotifyStore(p) ==
    /\ inv[p].pc = "fcm_store"
    /\ \E ok \in BOOLEAN :
          /\ notifications' =
                IF ok THEN Append(notifications,
                              [signal_id |-> inv[p].signal_id,
                               signal_type |-> inv[p].signal_data.type])
                ELSE notifications
          /\ Upd(p, Finish(inv[p], 200))
    /\ UNCHANGED <<db_settings, signals, trades, failed_trades,
                   firebase_app, ncycles, prev>>

\* The body of lambda_handler's 200 response after the notification step:
\* 'notification_sent': should_notify, 'trade_executed': trade_executed.
ResultBody(r) ==
    [notification_sent |-> r.should_notify, trade_executed |-> r.trade_executed]

\* The invocation has returned; its locals are gone.  prev remembers what
\* the cycle persisted in the signal store.
Return(p) ==
    /\ inv[p].pc = "done"
    /\ Upd(p, IdleInv)
    /\ prev' = IF inv[p].caller = "handler"
               THEN [persisted |-> IF inv[p].signal_id # 0
                                   THEN inv[p].signal_data.type ELSE "NONE"]
               ELSE prev
    /\ UNCHANGED <<db_settings, signals, trades, failed_trades, notifications,
                   firebase_app, ncycles>>

\* update_settings.py: update_one({'_id': 'default'}, {'$set': {'settings':
\* new_settings}}, upsert=True).  A cycle reads the document once, at its
\* start, so an update while a cycle runs is seen like an update after it.
UpdateSettings ==
    /\ \A q \in Slots : inv[q].pc = "idle"
    /\ ncycles < MaxCycles
    /\ db_settings # new_settings
    /\ db_settings' = new_settings
    /\ UNCHANGED <<signals, trades, failed_trades, notifications,
                   firebase_app, inv, ncycles, prev>>

\* execute_trade called on its own (test_trading_integration.py, step 8),
\* with a signal, the id of a stored signal, and settings.
CallExecuteTrade(p) ==
    /\ p = 1
    /\ ncycles < MaxCycles
    /\ \A q \in Slots : inv[q].pc = "idle"
    /\ ncycles' = ncycles + 1
    /\ \E type \in {"BUY", "SELL", "HOLD"} :
          Upd(p, [IdleInv EXCEPT
                    !.pc = "et_enter",
                    !.caller = "direct",
                    !.settings = get_settings_from_db(TRUE, db_settings),
                    !.signal_data = [type |-> type, price |-> 100,
                                     confidence |-> 5000],
                    !.signal_id = Len(signals)])
    /\ UNCHANGED <<db_settings, signals, trades, failed_trades, notifications,
                   firebase_app, prev>>

Step(p) ==
    \/ GetSettings(p)
    \/ GetRecentPrices(p)
    \/ Analyze(p)
    \/ GetLastSignal(p)
    \/ StoreSignal(p)
    \/ Decide(p)
    \/ ExecuteTradeEnter(p)
    \/ GetCredentials(p)
    \/ TestConnection(p)
    \/ BuyBalance(p)
    \/ BuyPrice(p)
    \/ BuyRules(p)
    \/ SellBalance(p)
    \/ SellRules(p)
    \/ SellPrice(p)
    \/ PlaceOrder(p)
    \/ StoreTrade(p)
    \/ StoreFailedTrade(p)
    \/ Notify(p)
    \/ NotifyInit(p)
    \/ NotifySend(p)
    \/ NotifyStore(p)
    \/ Return(p)

\* Cycles, one after the other.
Next == UpdateSettings \/ \E p \in Slots : StartCycle(p) \/ Step(p)

Spec == Init /\ [][Next]_vars

\* Cycles and direct calls of execute_trade, one after the other.
NextDirect == Next \/ \E p \in Slots : CallExecuteTrade(p)

SpecDirect == Init /\ [][NextDirect]_vars

\* A cycle is triggered whether or not another one still runs: nothing in
\* lambda_handler takes a lock.  Each process serves one invocation, the
\* second one is started while the first is busy.
StartOverlapping(p) ==
    /\ ncycles < MaxCycles
    /\ ncycles = p - 1
    /\ inv[p].pc = "idle"
    /\ \A q \in Slots : q < p => inv[q].pc # "idle"
    /\ ncycles' = ncycles + 1
    /\ Upd(p, [IdleInv EXCEPT !.pc = "settings", !.caller = "handler"])
    /\ UNCHANGED <<db_settings, signals, trades, failed_trades, notifications,
                   firebase_app, prev>>

\* The settings documents of the overlapping cycles: trading without
\* notifications, notifications without trading.
InitOverlap == InitWith({DocTradeQuiet, DocPeriods})

\* Cycles that may overlap.
NextOverlap == UpdateSettings \/ \E p \in Slots : StartOverlapping(p) \/ Step(p)

SpecOverlap == InitOverlap /\ [][NextOverlap]_vars

\* Cycles under each kind of trading_mode: absent from the document (the
\* default applies), the sandbox, the live environment.
InitModes == InitWith({DocTrade, DocSandbox, DocLiveHalf})

SpecModes == InitModes /\ [][Next]_vars

\* The host ends an invocation of lambda_handler that has reached its
\* deadline, wherever the handler is: no further statement of it runs, what
\* it has written to the stores stays.  The process is not used again; its
\* locals are kept as they were when it was ended.
HostDeadline(p) ==
    /\ inv[p].caller = "handler"
    /\ inv[p].pc \notin {"idle", "done", "killed"}
    /\ Upd(p, [inv[p] EXCEPT !.pc = "killed"])
    /\ UNCHANGED <<db_settings, signals, trades, failed_trades, notifications,
                   firebase_app, ncycles, prev>>

\* The next cycle is triggered, in a process of its own, once the cycles
\* before it have returned or have been ended by the host.
StartAfterDeadline(p) ==
    /\ ncycles < MaxCycles
    /\ ncycles = p - 1
    /\ inv[p].pc = "idle"
    /\ \A q \in Slots : q < p => inv[q].pc \in {"idle", "killed"}
    /\ ncycles' = ncycles + 1
    /\ Upd(p, [IdleInv EXCEPT !.pc = "settings", !.caller = "handler"])
    /\ UNCHANGED <<db_settings, signals, trades, failed_trades, notifications,
                   firebase_app, prev>>

\* Cycles with trading and notifications enabled, under a host deadline.
InitDeadline == InitWith({DocTrade})

NextDeadline ==
    \E p \in Slots : StartAfterDeadline(p) \/ Step(p) \/ HostDeadline(p)

SpecDeadline == InitDeadline /\ [][NextDeadline]_vars

\* Cycles one after the other, each in a process of its own, under the four
\* combinations of the switches trading_enabled and notifications_enabled.
InitSwitches == InitWith({DocPeriods, DocQuiet, DocTrade, DocTradeQuiet})

NextSwitches == \E p \in Slots : StartAfterDeadline(p) \/ Step(p)

SpecSwitches == InitSwitches /\ [][NextSwitches]_vars

\* Price windows long enough for the default periods (7, 25, 14): 18 samples
\* at 100 followed by 7 at 90 (BUY under the defaults) or at 110 (SELL).
LongWindows ==
    {[i \in 1..25 |-> IF i <= 18 THEN 100 ELSE last] : last \in {90, 110}}

\* prices = get_recent_prices(minutes=30), answered with a long window
GetRecentPricesLong(p) ==
    /\ inv[p].pc = "prices"
    /\ \E w \in LongWindows :
          Upd(p, [inv[p] EXCEPT !.prices = w, !.pc = "analyze"])
    /\ UNCHANGED <<db_settings, signals, trades, failed_trades, notifications,
                   firebase_app, ncycles, prev>>

\* Cycles with stored settings that switch trading on, one after the other,
\* with price windows of up to 25 samples.
InitDefaults == InitWith({DocTrade, DocLiveHalf})

NextDefaults ==
    \E p \in Slots : StartAfterDeadline(p) \/ GetRecentPricesLong(p) \/ Step(p)

SpecDefaults == InitDefaults /\ [][NextDefaults]_vars

\* analyze_signal on its own: every price sequence of up to MaxLen samples
\* over three levels and three sequences with an RSI at the edges, every choice of the three periods up to MaxPeriod, thresholds of 0, 0.3%
\* and 10%, the RSI levels of the defaults.
PriceLevels == {90, 100, 110}

PriceSeqs == UNION {[1..n -> PriceLevels] : n \in 0..MaxLen}

ThresholdChoices == {0, 3, 100}

\* Price sequences whose RSI over the last two changes is 29.9975.., 20 and
\* 70.0025..: next to the RSI levels and between them and the extremes.
RsiEdgeSeqs == {<<2806, 1, 1203>>, <<500, 100, 200>>, <<1, 2806, 1604>>}

AnalyzeSettings ==
    {MergeSettings([short_ma_period |-> a, long_ma_period |-> b,
                    rsi_period |-> c, buy_threshold |-> t, sell_threshold |-> t]) :
        a \in 1..MaxPeriod, b \in 1..MaxPeriod, c \in 1..MaxPeriod,
        t \in ThresholdChoices}

\* analyze_signal is about to be called with the prices and the settings.
InitAnalyze ==
    /\ db_settings = NoDoc
    /\ signals = << >>
    /\ trades = << >>
    /\ failed_trades = << >>
    /\ notifications = << >>
    /\ firebase_app = [p \in Slots |-> FALSE]
    /\ ncycles = MaxCycles
    /\ prev = [persisted |-> "NONE"]
    /\ \E w \in PriceSeqs \cup RsiEdgeSeqs, s \in AnalyzeSettings :
          inv = [p \in Slots |->
                    IF p = 1 THEN [IdleInv EXCEPT !.pc = "analyze",
                                                  !.caller = "direct",
                                                  !.settings = s,
                                                  !.prices = w]
                    ELSE IdleInv]

NextAnalyze == \E p \in Slots : Analyze(p)

SpecAnalyze == InitAnalyze /\ [][NextAnalyze]_vars

\* calculate_moving_average and calculate_rsi on their own, with every price
\* sequence of up to MaxLen samples and every period up to MaxPeriod.  What a
\* call returned is kept as [op, none, num, den]: None, or the number
\* num/den.
IndicatorResult(op, none, num, den) ==
    [op |-> op, none |-> none, num |-> num, den |-> den]

InitIndicators ==
    /\ db_settings = NoDoc
    /\ signals = << >>
    /\ trades = << >>
    /\ failed_trades = << >>
    /\ notifications = << >>
    /\ firebase_app = [p \in Slots |-> FALSE]
    /\ ncycles = MaxCycles
    /\ prev = [persisted |-> "NONE"]
    /\ \E w \in PriceSeqs, k \in 1..MaxPeriod :
          inv = [p \in Slots |->
                    IF p = 1 THEN [IdleInv EXCEPT !.pc = "ma",
                                                  !.caller = "direct",
                                                  !.settings.short_ma_period = k,
                                                  !.settings.rsi_period = k,
                                                  !.prices = w]
                    ELSE IdleInv]

\* short_ma = calculate_moving_average(prices, short_period)
CalculateMovingAverage(p) ==
    /\ inv[p].pc = "ma"
    /\ LET ma == calculate_moving_average(inv[p].prices,
                                          inv[p].settings.short_ma_period)
       IN  Upd(p, [Logged(inv[p], IndicatorResult("calculate_moving_average",
                                                  ma.none, ma.num, ma.den))
                     EXCEPT !.pc = "rsi"])
    /\ UNCHANGED <<db_settings, signals, trades, failed_trades, notifications,
                   firebase_app, ncycles, prev>>

\* rsi = calculate_rsi(prices, rsi_period)
CalculateRsi(p) ==
    /\ inv[p].pc = "rsi"
    /\ LET rsi == calculate_rsi(inv[p].prices, inv[p].settings.rsi_period)
       IN  Upd(p, [Logged(inv[p], IndicatorResult("calculate_rsi",
                                                  FALSE, rsi.num, rsi.den))
                     EXCEPT !.pc = "indicators_done"])
    /\ UNCHANGED <<db_settings, signals, trades, failed_trades, notifications,
                   firebase_app, ncycles, prev>>

NextIndicators == \E p \in Slots : CalculateMovingAverage(p) \/ CalculateRsi(p)

SpecIndicators == InitIndicators /\ [][NextIndicators]_vars

\* calculate_quantity on its own: LOT_SIZE filters with a step that is and is
\* not a power of ten and with bounds on and off the step's grid, in units
\* of 10^-QtyDigits; amounts to spend and prices as whole numbers.
StepSizes == {1, 10, 25}

MinQtys == {1, 10, 12, 40, 50}

MaxQtys == {50, 100, 900}

LotSizeFilters ==
    {[minQty |-> m, maxQty |-> x, stepSize |-> st] :
        m \in MinQtys, x \in MaxQtys, st \in StepSizes}

QuoteAmounts == {0, 1, 5, 20}

QuotePrices == {1, 3, 8}

\* calculate_quantity is about to be called with the amount, the price and
\* the filter the exchange has answered with.
InitQuantity ==
    /\ db_settings = NoDoc
    /\ signals = << >>
    /\ trades = << >>
    /\ failed_trades = << >>
    /\ notifications = << >>
    /\ firebase_app = [p \in Slots |-> FALSE]
    /\ ncycles = MaxCycles
    /\ prev = [persisted |-> "NONE"]
    /\ \E a \in QuoteAmounts, pr \in QuotePrices, lot \in LotSizeFilters :
          inv = [p \in Slots |->
                    IF p = 1 THEN [IdleInv EXCEPT !.pc = "calc",
                                                  !.caller = "direct",
                                                  !.settings.trade_amount_usdt = a,
                                                  !.et.price = pr,
                                                  !.et.rules = lot]
                    ELSE IdleInv]

\* quantity = calculate_quantity(symbol, usdt_amount, current_price)
CalculateQuantity(p) ==
    /\ inv[p].pc = "calc"
    /\ LET q == calculate_quantity(inv[p].settings.trade_amount_usdt,
                                   inv[p].et.price, inv[p].et.rules)
           r == Logged(inv[p], Call("calculate_quantity", "local", q, TRUE))
       IN  Upd(p, [r EXCEPT !.et.quantity = q, !.pc = "calc_again"])
    /\ UNCHANGED <<db_settings, signals, trades, failed_trades, notifications,
                   firebase_app, ncycles, prev>>

\* The same rounding, clamping and rounding applied to the quantity just
\* returned: raw_quantity = quantity / 1.
CalculateQuantityAgain(p) ==
    /\ inv[p].pc = "calc_again"
    /\ LET q == calculate_quantity(inv[p].et.quantity, Pow10(QtyDigits),
                                   inv[p].et.rules)
           r == Logged(inv[p], Call("calculate_quantity", "local", q, TRUE))
       IN  Upd(p, [r EXCEPT !.pc = "calc_done"])
    /\ UNCHANGED <<db_settings, signals, trades, failed_trades, notifications,
                   firebase_app, ncycles, prev>>

NextQuantity == \E p \in Slots : CalculateQuantity(p) \/ CalculateQuantityAgain(p)

SpecQuantity == InitQuantity /\ [][NextQuantity]_vars

\* store_trade on its own.  The trade document it inserts, with the keys of
\* trade_doc; the timestamp is left out.  A price is in quote units, a
\* quantity and a commission in 1/100 of a base unit; average_price is kept
\* as the fraction num/den.
\* sum(float(fill['qty']) for fill in fills)
RECURSIVE TotalQty(_)
TotalQty(fills) ==
    IF fills = << >> THEN 0 ELSE Head(fills).qty + TotalQty(Tail(fills))

\* sum(float(fill['price']) * float(fill['qty']) for fill in fills)
RECURSIVE TotalValue(_)
TotalValue(fills) ==
    IF fills = << >> THEN 0
    ELSE Head(fills).price * Head(fills).qty + TotalValue(Tail(fills))

\* store_trade: trade_doc, with avg_price guarded by total_qty > 0.
store_trade(trade_result, signal_id, signal_data) ==
    LET fills == trade_result.fills
        total_qty == TotalQty(fills)
        avg_price == IF total_qty > 0
                     THEN [num |-> TotalValue(fills), den |-> total_qty]
                     ELSE [num |-> 0, den |-> 1]
    IN  [signal_id         |-> signal_id,
         binance_order_id  |-> trade_result.orderId,
         symbol            |-> trade_result.symbol,
         side              |-> trade_result.side,
         type              |-> trade_result.type,
         status            |-> trade_result.status,
         executed_qty      |-> trade_result.executedQty,
         average_price     |-> avg_price,
         signal_price      |-> signal_data.price,
         signal_confidence |-> signal_data.confidence,
         fills             |-> fills]

\* The fills an order response reports.
Fills == [price : {100, 110}, qty : {0, 1, 2}, commission : {0, 1}]

FillSeqs == UNION {[1..n -> Fills] : n \in 0..MaxFills}

\* The response of POST /api/v3/order to a market order.
OrderResponse(side, fills) ==
    [orderId |-> 1, symbol |-> "BTCUSDT", side |-> side, type |-> "MARKET",
     status |-> "FILLED", executedQty |-> TotalQty(fills),
     fills |-> fills]

\* execute_trade holds the response of an accepted order (trade_result) and
\* is about to call store_trade.
InitStoreTrade ==
    /\ db_settings = NoDoc
    /\ signals = << >>
    /\ trades = << >>
    /\ failed_trades = << >>
    /\ notifications = << >>
    /\ firebase_app = [p \in Slots |-> FALSE]
    /\ ncycles = MaxCycles
    /\ prev = [persisted |-> "NONE"]
    /\ \E side \in {"BUY", "SELL"}, fills \in FillSeqs :
          inv = [p \in Slots |->
                    IF p = 1 THEN [IdleInv EXCEPT
                                     !.pc = "store_trade",
                                     !.caller = "direct",
                                     !.signal_id = 1,
                                     !.signal_data = [type |-> side, price |-> 100,
                                                      confidence |-> 7000],
                                     !.et.result = OrderResponse(side, fills)]
                    ELSE IdleInv]

\* store_trade(trade_result, signal_id, signal_data): insert_one(trade_doc);
\* a failed insert is raised again.
StoreTradeDocument(p) ==
    /\ inv[p].pc = "store_trade"
    /\ \E ok \in BOOLEAN :
          LET r == Logged(inv[p], Call("insert_trade", "mongo", 0, ok))
          IN  IF ok
              THEN /\ trades' = Append(trades,
                         store_trade(r.et.result, r.signal_id, r.signal_data))
                   /\ Upd(p, [r EXCEPT !.pc = "trade_stored"])
              ELSE /\ trades' = trades
                   /\ Upd(p, [r EXCEPT !.et.raised = TRUE,
                                       !.et.error = ErrStoreTrade,
                                       !.pc = "store_trade_raised"])
    /\ UNCHANGED <<db_settings, signals, failed_trades, notifications,
                   firebase_app, ncycles, prev>>

NextStoreTrade == \E p \in Slots : StoreTradeDocument(p)

SpecStoreTrade == InitStoreTrade /\ [][NextStoreTrade]_vars

\* BinanceSpotTrader._make_request on its own.  A dict is the sequence of its
\* items in insertion order; urlencode(params) keeps that order, so the query
\* string is the sequence itself.  The HMAC of a string under a secret is
\* kept as the pair of the two.
Item(key, value) == [key |-> key, value |-> value]

Keys(params) == {params[i].key : i \in DOMAIN params}

\* params[key] = value: an existing key keeps its place, a new one is last.
DictSet(params, key, value) ==
    IF key \in Keys(params)
    THEN [i \in DOMAIN params |->
            IF params[i].key = key THEN Item(key, value) ELSE params[i]]
    ELSE Append(params, Item(key, value))

urlencode(params) == params

\* hmac.new(api_secret, query_string, sha256).hexdigest()
generate_signature(api_secret, params) ==
    [secret |-> api_secret, message |-> urlencode(params)]

\* Mutant of make_request: the signature is computed before the timestamp is
\* added.
make_request_SignFirst(params, signed, now, api_secret) ==
    IF signed
    THEN LET sig == generate_signature(api_secret, params)
             stamped == DictSet(params, "timestamp", now \div 1000)
         IN  DictSet(stamped, "signature", sig)
    ELSE params

\* The parameters _make_request sends: with signed, params['timestamp'] =
\* int(time.time() * 1000), then params['signature'] =
\* self._generate_signature(params).  now is the clock in microseconds.
make_request(params, signed, now, api_secret) ==
    IF signed
    THEN LET stamped == DictSet(params, "timestamp", now \div 1000)
         IN  DictSet(stamped, "signature", generate_signature(api_secret, stamped))
    ELSE params

\* The calls of _make_request in BinanceSpotTrader: endpoint, params, signed.
RequestCalls ==
    {[endpoint |-> "ping", params |-> << >>, signed |-> FALSE],
     [endpoint |-> "account", params |-> << >>, signed |-> TRUE],
     [endpoint |-> "price", params |-> <<Item("symbol", "BTCUSDT")>>,
      signed |-> FALSE],
     [endpoint |-> "exchangeInfo", params |-> <<Item("symbol", "BTCUSDT")>>,
      signed |-> FALSE],
     [endpoint |-> "myTrades",
      params |-> <<Item("symbol", "BTCUSDT"), Item("limit", 10)>>,
      signed |-> TRUE]}
    \cup {[endpoint |-> "order",
           params |-> <<Item("symbol", "BTCUSDT"), Item("side", side),
                        Item("type", "MARKET"), Item("quantity", q)>>,
           signed |-> TRUE] : side \in {"BUY", "SELL"}, q \in {1, 25}}

\* time.time(), in microseconds.
ClockValues == {1500, 2999}

\* A trader object has been constructed and has sent nothing.
InitRequest ==
    /\ db_settings = NoDoc
    /\ signals = << >>
    /\ trades = << >>
    /\ failed_trades = << >>
    /\ notifications = << >>
    /\ firebase_app = [p \in Slots |-> FALSE]
    /\ ncycles = MaxCycles
    /\ prev = [persisted |-> "NONE"]
    /\ inv = [p \in Slots |->
                IF p = 1 THEN [IdleInv EXCEPT !.pc = "request", !.caller = "direct"]
                ELSE IdleInv]

\* One call of _make_request; what is sent is kept with what was passed.
MakeRequest(p) ==
    /\ inv[p].pc = "request"
    /\ Len(inv[p].calls) < MaxRequests
    /\ \E c \in RequestCalls, now \in ClockValues :
          Upd(p, Logged(inv[p],
                 [op |-> c.endpoint, signed |-> c.signed, params |-> c.params,
                  now |-> now,
                  sent |-> make_request(c.params, c.signed, now, "api_secret")]))
    /\ UNCHANGED <<db_settings, signals, trades, failed_trades, notifications,
                   firebase_app, ncycles, prev>>

NextRequest == \E p \in Slots : MakeRequest(p)

SpecRequest == InitRequest /\ [][NextRequest]_vars


(***************************************************************************)
(* Properties.                                                             *)
(***************************************************************************)
Running == {p \in Slots : inv[p].pc # "idle"}

Cycles == {p \in Slots : inv[p].caller = "handler"}

\* The calls of an invocation with an operation in ops, by position.
CallsOf(r, ops) == {i \in DOMAIN r.calls : r.calls[i].op \in ops}

ExchangeOps == {"ping", "account", "price", "exchangeInfo", "order"}

\* C1: in lambda_handler signal_changed is true exactly when the new type is
\* BUY or SELL and there is no last signal or the last signal's type differs:
\* of the pairs (last, new) exactly (none,BUY), (none,SELL), (HOLD,BUY),
\* (HOLD,SELL), (BUY,SELL) and (SELL,BUY) are transitions.
C1_TransitionFlag ==
    \A p \in Cycles :
        inv[p].decided =>
            (inv[p].signal_changed <=>
                <<inv[p].last_signal.type, inv[p].signal_data.type>> \in
                    {<<"NONE", "BUY">>, <<"NONE", "SELL">>, <<"HOLD", "BUY">>,
                     <<"HOLD", "SELL">>, <<"BUY", "SELL">>, <<"SELL", "BUY">>})

\* C1 witness: a cycle that read BUY as the last signal, classified SELL and
\* set the flag.
C1_Witness ==
    \E p \in Cycles :
        /\ inv[p].decided
        /\ inv[p].last_signal.type = "BUY"
        /\ inv[p].signal_data.type = "SELL"
        /\ inv[p].signal_changed

\* C2 (as claimed): when the previous cycle persisted a signal of type BUY or
\* SELL and this cycle classifies the same type, this cycle declares no
\* transition, attempts no trade and dispatches no notification, whether its
\* read of the last signal succeeded or failed.
C2_RepeatDoesNotRetrigger ==
    \A p \in Cycles :
        (/\ inv[p].decided
         /\ prev.persisted \in {"BUY", "SELL"}
         /\ inv[p].signal_data.type = prev.persisted)
        => (/\ ~inv[p].signal_changed
            /\ ~inv[p].et.entered
            /\ CallsOf(inv[p], ExchangeOps \cup {"fcm_secret", "fcm_send"}) = {})

\* C3: in a cycle get_last_signal has completed before store_signal writes,
\* and the snapshot it returned is not the record the cycle itself wrote.
C3_SnapshotBeforeStore ==
    \A p \in Cycles :
        inv[p].signal_id # 0 =>
            /\ inv[p].read_last
            /\ inv[p].last_signal.id # inv[p].signal_id

\* C3 witness: a cycle that found a last signal and then stored its own.
C3_Witness ==
    \E p \in Cycles :
        /\ inv[p].signal_id # 0
        /\ inv[p].last_signal # NoSignal


TradeOps == {"secret", "ping", "account", "price", "exchangeInfo", "order"}

RecordOps == {"insert_trade", "insert_failed_trade"}

\* C4: while trading_enabled is false, or the signal is HOLD, an invocation
\* (a cycle or a direct call of execute_trade) fetches no exchange
\* credentials, calls the exchange for nothing, inserts no trade and no
\* failed-trade record, and execute_trade returns None.
C4_DisabledMeansNoTrade ==
    \A p \in Running :
        (~inv[p].settings.trading_enabled \/ inv[p].signal_data.type = "HOLD")
        => /\ CallsOf(inv[p], TradeOps \cup RecordOps) = {}
           /\ ~inv[p].trade_executed
           /\ (inv[p].et.returned => inv[p].et.retval = "NONE")

\* C4 witness: execute_trade called directly with a BUY signal and trading
\* disabled has returned.
C4_Witness ==
    \E p \in Running :
        /\ inv[p].caller = "direct"
        /\ ~inv[p].settings.trading_enabled
        /\ inv[p].signal_data.type = "BUY"
        /\ inv[p].et.returned

RecordedSignalIds ==
    {trades[i].signal_id : i \in DOMAIN trades}
        \cup {failed_trades[i].signal_id : i \in DOMAIN failed_trades}

\* C5 (as claimed): every trade record and failed-trade record carries the
\* signal_id of a cycle that declared a transition to BUY or SELL with
\* trading enabled; a cycle whose signal is HOLD or repeats the type of the
\* signal persisted before it adds no such record.
C5_RecordsOnlyForTransitions ==
    /\ \A k \in RecordedSignalIds :
          /\ k \in DOMAIN signals
          /\ signals[k].type \in {"BUY", "SELL"}
          /\ (k = 1 \/ signals[k - 1].type # signals[k].type)
    /\ \A p \in Cycles :
          CallsOf(inv[p], RecordOps) # {}
              => inv[p].signal_changed /\ inv[p].settings.trading_enabled

\* C6 (as claimed): every quantity passed to place_market_order, BUY or SELL,
\* is a multiple of the LOT_SIZE stepSize read in the attempt and lies within
\* [minQty, maxQty].
C6_OrderQuantityValid ==
    \A p \in Running :
        \A i \in CallsOf(inv[p], {"order"}) :
            /\ inv[p].calls[i].qty % inv[p].et.rules.stepSize = 0
            /\ inv[p].et.rules.minQty <= inv[p].calls[i].qty
            /\ inv[p].calls[i].qty <= inv[p].et.rules.maxQty

\* C7 (as claimed): when the connectivity probe fails, no balance, price,
\* rules or order request follows it, a failed-trade record is inserted and
\* execute_trade returns None.
C7_ProbeFailureAborts ==
    \A p \in Running :
        \A i \in CallsOf(inv[p], {"ping"}) :
            ~inv[p].calls[i].ok =>
                /\ \A j \in CallsOf(inv[p], {"account", "price", "exchangeInfo",
                                             "order"}) : j < i
                /\ (inv[p].et.returned =>
                        /\ inv[p].et.retval = "NONE"
                        /\ CallsOf(inv[p], {"insert_failed_trade"}) # {})

\* The failed-trade records of a signal.
FailedRecords(sid) ==
    {i \in DOMAIN failed_trades : failed_trades[i].signal_id = sid}

\* store_failed_trade's insert was accepted by the store.
FailedInsertAccepted(r) ==
    \E i \in CallsOf(r, {"insert_failed_trade"}) : r.calls[i].ok

\* BUY path: the free USDT balance read in this attempt is below the spend.
InsufficientUsdt(r) ==
    /\ r.signal_data.type = "BUY"
    /\ \E i \in CallsOf(r, {"account"}) : r.calls[i].ok
    /\ r.et.balance < r.settings.trade_amount_usdt

\* C8 (as claimed): with the free USDT balance below the spend amount, no
\* price is read and no order is placed, execute_trade returns None and
\* exactly one failed-trade record with the insufficient-balance text is
\* stored.
C8_InsufficientBalanceRecorded ==
    \A p \in Cycles :
        InsufficientUsdt(inv[p]) =>
            /\ CallsOf(inv[p], {"price", "exchangeInfo", "order"}) = {}
            /\ (inv[p].et.returned =>
                    /\ inv[p].et.retval = "NONE"
                    /\ Cardinality(FailedRecords(inv[p].signal_id)) = 1
                    /\ \A i \in FailedRecords(inv[p].signal_id) :
                          failed_trades[i].error = ErrInsufficient)

\* C8 (amended): with the free USDT balance below the spend amount, no price
\* is read and no order is placed, execute_trade returns None, and the
\* failed-trade store holds one record for the signal, with the
\* insufficient-balance text, when it accepted store_failed_trade's insert
\* and none when that insert failed.
C8_InsufficientBalanceAmended ==
    \A p \in Cycles :
        InsufficientUsdt(inv[p]) =>
            /\ CallsOf(inv[p], {"price", "exchangeInfo", "order"}) = {}
            /\ (inv[p].et.returned =>
                    /\ inv[p].et.retval = "NONE"
                    /\ ~inv[p].trade_executed
                    /\ Cardinality(FailedRecords(inv[p].signal_id)) =
                          (IF FailedInsertAccepted(inv[p]) THEN 1 ELSE 0)
                    /\ \A i \in FailedRecords(inv[p].signal_id) :
                          failed_trades[i].error = ErrInsufficient)

\* C8 witness: execute_trade returned after an insufficient balance and the
\* record is in the store.
C8_Witness ==
    \E p \in Cycles :
        /\ InsufficientUsdt(inv[p])
        /\ inv[p].et.returned
        /\ Cardinality(FailedRecords(inv[p].signal_id)) = 1

\* SELL path: the free BTC balance read in this attempt is zero or less.
NoBtcToSell(r) ==
    /\ r.signal_data.type = "SELL"
    /\ \E i \in CallsOf(r, {"account"}) : r.calls[i].ok
    /\ r.et.balance <= 0

\* C9 (as claimed): with a free BTC balance of zero or less, no order is
\* placed, execute_trade returns None and a failed-trade record with the
\* no-asset-to-sell text is stored.
C9_NoAssetRecorded ==
    \A p \in Cycles :
        NoBtcToSell(inv[p]) =>
            /\ CallsOf(inv[p], {"order"}) = {}
            /\ (inv[p].et.returned =>
                    /\ inv[p].et.retval = "NONE"
                    /\ \E i \in FailedRecords(inv[p].signal_id) :
                          failed_trades[i].error = ErrNoBTC)

\* C9 (amended): with a free BTC balance of zero or less, no rules or price
\* are read and no order is placed, execute_trade returns None, and the
\* failed-trade store holds one record for the signal, with the
\* no-asset-to-sell text, when it accepted store_failed_trade's insert and
\* none when that insert failed.
C9_NoAssetAmended ==
    \A p \in Cycles :
        NoBtcToSell(inv[p]) =>
            /\ CallsOf(inv[p], {"exchangeInfo", "price", "order"}) = {}
            /\ (inv[p].et.returned =>
                    /\ inv[p].et.retval = "NONE"
                    /\ ~inv[p].trade_executed
                    /\ Cardinality(FailedRecords(inv[p].signal_id)) =
                          (IF FailedInsertAccepted(inv[p]) THEN 1 ELSE 0)
                    /\ \A i \in FailedRecords(inv[p].signal_id) :
                          failed_trades[i].error = ErrNoBTC)

\* C9 witness: execute_trade returned after reading a zero BTC balance and
\* the record is in the store.
C9_Witness ==
    \E p \in Cycles :
        /\ NoBtcToSell(inv[p])
        /\ inv[p].et.returned
        /\ \E i \in FailedRecords(inv[p].signal_id) :
              failed_trades[i].error = ErrNoBTC

AttemptFailed(r) ==
    \/ r.et.raised
    \/ \E i \in CallsOf(r, {"ping"}) : ~r.calls[i].ok

\* C11 (as claimed): a trade attempt that failed in the credentials fetch, the
\* connectivity probe, the balance check, the sizing, the order placement or
\* the trade insert has, once execute_trade returned, exactly one
\* failed-trade record for its signal_id, with the text of the error raised.
C11_FailedAttemptRecordedOnce ==
    \A p \in Cycles :
        (AttemptFailed(inv[p]) /\ inv[p].et.returned) =>
            /\ Cardinality(FailedRecords(inv[p].signal_id)) = 1
            /\ (inv[p].et.raised =>
                    \A i \in FailedRecords(inv[p].signal_id) :
                        failed_trades[i].error = inv[p].et.error)

\* The trade records of a signal.
TradeRecords(sid) == {i \in DOMAIN trades : trades[i].signal_id = sid}

\* place_market_order was answered with an order by the exchange.
OrderAccepted(r) == \E i \in CallsOf(r, {"order"}) : r.calls[i].ok

\* store_trade's insert was accepted by the store.
TradeInsertAccepted(r) == \E i \in CallsOf(r, {"insert_trade"}) : r.calls[i].ok

\* A trade record exists only for an accepted order: it carries the id and
\* the type of a stored BUY or SELL signal, no two records share a signal,
\* and the running cycle has one only after its order was accepted.
TradeRecordsOnlyForOrders ==
    /\ \A i \in DOMAIN trades :
          /\ trades[i].signal_id \in DOMAIN signals
          /\ signals[trades[i].signal_id].type = trades[i].side
          /\ trades[i].side \in {"BUY", "SELL"}
          /\ Cardinality(TradeRecords(trades[i].signal_id)) = 1
    /\ \A p \in Cycles :
          TradeRecords(inv[p].signal_id) # {} =>
              OrderAccepted(inv[p]) /\ TradeInsertAccepted(inv[p])

\* C12 (as claimed): for the order the exchange accepted in a cycle there is,
\* once execute_trade returned, exactly one trade record with the cycle's
\* signal_id and no failed-trade record, and trade_executed is true; a trade
\* record exists only for an accepted order.
C12_AcceptedOrderRecorded ==
    /\ \A p \in Cycles :
          (OrderAccepted(inv[p]) /\ inv[p].et.returned) =>
              /\ Cardinality(TradeRecords(inv[p].signal_id)) = 1
              /\ FailedRecords(inv[p].signal_id) = {}
              /\ inv[p].trade_executed
    /\ TradeRecordsOnlyForOrders

\* C12 (amended): for the order the exchange accepted in a cycle, once
\* execute_trade returned: when the trade store accepted store_trade's insert
\* there is exactly one trade record with the cycle's signal_id and no
\* failed-trade record, and trade_executed is true; when that insert failed
\* there is no trade record, trade_executed is false, and the failed-trade
\* store holds the record of the store error when it accepted
\* store_failed_trade's insert and nothing otherwise.  A trade record exists
\* only for an accepted order.
C12_AcceptedOrderAmended ==
    /\ \A p \in Cycles :
          (OrderAccepted(inv[p]) /\ inv[p].et.returned) =>
              IF TradeInsertAccepted(inv[p])
              THEN /\ Cardinality(TradeRecords(inv[p].signal_id)) = 1
                   /\ FailedRecords(inv[p].signal_id) = {}
                   /\ inv[p].et.retval = "ORDER"
                   /\ inv[p].trade_executed
              ELSE /\ TradeRecords(inv[p].signal_id) = {}
                   /\ inv[p].et.retval = "NONE"
                   /\ ~inv[p].trade_executed
                   /\ Cardinality(FailedRecords(inv[p].signal_id)) =
                         (IF FailedInsertAccepted(inv[p]) THEN 1 ELSE 0)
                   /\ \A i \in FailedRecords(inv[p].signal_id) :
                         failed_trades[i].error = ErrStoreTrade
    /\ TradeRecordsOnlyForOrders

\* C12 witness: a cycle whose order was accepted and recorded has returned
\* with trade_executed true.
C12_Witness ==
    \E p \in Cycles :
        /\ OrderAccepted(inv[p])
        /\ Cardinality(TradeRecords(inv[p].signal_id)) = 1
        /\ inv[p].trade_executed
        /\ inv[p].pc = "done"

\* Two cycles that run at the same time took the same snapshot of the last
\* signal and classified the same BUY or SELL type, which the snapshot does
\* not have: one transition, seen twice.
SameTransition(p, q) ==
    /\ p # q
    /\ inv[p].read_last /\ inv[q].read_last
    /\ inv[p].last_signal = inv[q].last_signal
    /\ inv[p].signal_data.type = inv[q].signal_data.type
    /\ inv[p].signal_data.type \in {"BUY", "SELL"}
    /\ inv[p].last_signal.type # inv[p].signal_data.type

\* C13: nothing keeps two overlapping cycles apart.  When both took the same
\* snapshot of the last signal and classified the same BUY or SELL type, each
\* one that computes the flag declares the transition, whatever the other has
\* stored in the meantime, and with trading enabled goes on to its own trade
\* attempt; the state in which both have placed an order is reached.
C13_OverlapBothDeclare ==
    \A p \in Cycles : \A q \in Cycles :
        (SameTransition(p, q) /\ inv[p].decided) =>
            /\ inv[p].signal_changed
            /\ (inv[p].settings.trading_enabled =>
                    inv[p].pc = "et_enter" \/ inv[p].et.entered)

\* C13 witness: two overlapping cycles have each placed an order for the same
\* transition.
C13_Witness ==
    \E p \in Cycles : \E q \in Cycles :
        /\ SameTransition(p, q)
        /\ CallsOf(inv[p], {"order"}) # {}
        /\ CallsOf(inv[q], {"order"}) # {}

\* The step of invocation p that is being taken ends the cycle with status
\* 500, and the cycle has attempted no trade and dispatched no notification.
AbortedByStep(p) ==
    /\ inv'[p].pc = "done"
    /\ inv'[p].status = 500
    /\ CallsOf(inv'[p], TradeOps \cup {"fcm_secret", "fcm_send"}) = {}

\* C14 (as claimed): a step of a cycle in which the access to a store failed
\* ends the cycle with status 500, before any trade attempt and any
\* notification.  The failed accesses a step shows: the settings read that
\* yields the defaults although the store holds a document that overrides
\* them, the read of the last signal that yields None although the signal
\* store is not empty, and the signal insert that leaves the store as it was.
C14_StoreFailureAborts ==
    [][\A p \in Slots :
          /\ (/\ inv[p].pc = "settings" /\ inv'[p].pc # "settings"
              /\ db_settings # NoDoc
              /\ MergeSettings(db_settings) # default_settings
              /\ inv'[p].settings = default_settings)
             => AbortedByStep(p)
          /\ (/\ inv[p].pc = "get_last" /\ inv'[p].pc # "get_last"
              /\ signals # << >>
              /\ inv'[p].last_signal = NoSignal)
             => AbortedByStep(p)
          /\ (/\ inv[p].pc = "store" /\ inv'[p].pc # "store"
              /\ signals' = signals)
             => AbortedByStep(p)]_vars

\* C15 (as claimed): a secret is fetched for, and a request is sent to, the
\* production environment only by an invocation whose settings name the live
\* environment in trading_mode.
C15_ProductionOnlyWhenLive ==
    \A p \in Running :
        \A i \in DOMAIN inv[p].calls :
            inv[p].calls[i].host = "production" =>
                inv[p].settings.trading_mode = "production"

\* analyze_signal has been applied to the invocation's prices and settings.
Analyzed(r) == r.pc \in {"get_last", "done"} /\ r.caller = "direct"

\* C16: for a price sequence with fewer than long_ma_period samples, the
\* empty one included, analyze_signal does not raise and returns HOLD with
\* confidence 0, the last price (0 without prices) and no indicator.
C16_ShortHistoryHolds ==
    \A p \in Slots :
        (Analyzed(inv[p]) /\ Len(inv[p].prices) < inv[p].settings.long_ma_period)
        => /\ inv[p].status # 500
           /\ inv[p].signal_data.type = "HOLD"
           /\ inv[p].signal_data.confidence = 0
           /\ inv[p].signal_data.price = LastPrice(inv[p].prices)
           /\ ~analyze_signal(inv[p].prices, inv[p].settings).indicators

\* C16 witness: analyze_signal has answered HOLD for the empty sequence.
C16_Witness ==
    \E p \in Slots :
        /\ Analyzed(inv[p])
        /\ inv[p].prices = << >>
        /\ inv[p].signal_data.type = "HOLD"

\* The moving averages of the invocation's prices, as sums over counts.
ShortSum(r) == SumSeq(LastK(r.prices, r.settings.short_ma_period))
LongSum(r)  == SumSeq(LastK(r.prices, r.settings.long_ma_period))

\* short_ma < long_ma * (1 - buy_threshold)
MaBuy(r) ==
    ShortSum(r) * r.settings.long_ma_period * ThresholdScale
        < LongSum(r) * r.settings.short_ma_period
            * (ThresholdScale - r.settings.buy_threshold)

\* short_ma > long_ma * (1 + sell_threshold)
MaSell(r) ==
    ShortSum(r) * r.settings.long_ma_period * ThresholdScale
        > LongSum(r) * r.settings.short_ma_period
            * (ThresholdScale + r.settings.sell_threshold)

\* rsi < rsi_oversold, rsi > rsi_overbought
RsiLow(r) ==
    LET rsi == calculate_rsi(r.prices, r.settings.rsi_period)
    IN  rsi.num < r.settings.rsi_oversold * rsi.den

RsiHigh(r) ==
    LET rsi == calculate_rsi(r.prices, r.settings.rsi_period)
    IN  rsi.num > r.settings.rsi_overbought * rsi.den

\* The classification by the moving averages alone.
MaOnlyType(r) == IF MaBuy(r) THEN "BUY" ELSE IF MaSell(r) THEN "SELL" ELSE "HOLD"

\* Enough samples for both moving averages.
EnoughSamples(r) ==
    /\ Len(r.prices) >= r.settings.long_ma_period
    /\ Len(r.prices) >= r.settings.short_ma_period

\* C17: with enough samples analyze_signal returns BUY exactly when
\* short_ma < long_ma*(1 - buy_threshold) and rsi < rsi_oversold, otherwise
\* SELL exactly when short_ma > long_ma*(1 + sell_threshold) and
\* rsi > rsi_overbought, otherwise HOLD; so the type is HOLD or the
\* classification by the moving averages alone, and it is not BUY while
\* short_ma is at or above long_ma.
C17_ClassificationRule ==
    \A p \in Slots :
        (Analyzed(inv[p]) /\ EnoughSamples(inv[p])) =>
            LET r == inv[p]
                t == r.signal_data.type
            IN  /\ r.status # 500
                /\ t \in {"BUY", "SELL", "HOLD"}
                /\ (t = "BUY" <=> (MaBuy(r) /\ RsiLow(r)))
                /\ (t = "SELL" <=>
                        (~(MaBuy(r) /\ RsiLow(r)) /\ MaSell(r) /\ RsiHigh(r)))
                /\ t \in {"HOLD", MaOnlyType(r)}
                /\ (t = "BUY" =>
                        ShortSum(r) * r.settings.long_ma_period
                            < LongSum(r) * r.settings.short_ma_period)

\* C17 witness: the moving averages say BUY, the RSI is not below
\* rsi_oversold, and analyze_signal has answered HOLD.
C17_Witness ==
    \E p \in Slots :
        /\ Analyzed(inv[p]) /\ EnoughSamples(inv[p])
        /\ MaBuy(inv[p]) /\ ~RsiLow(inv[p])
        /\ inv[p].signal_data.type = "HOLD"

\* C18 (as claimed): when the prices are too few for an indicator (fewer than
\* short_ma_period, than long_ma_period, or than rsi_period + 1),
\* analyze_signal returns HOLD and does not raise, whichever of
\* short_ma_period and long_ma_period is the larger.
C18_ShortageNeverRaises ==
    \A p \in Slots :
        (/\ Analyzed(inv[p])
         /\ \/ Len(inv[p].prices) < inv[p].settings.short_ma_period
            \/ Len(inv[p].prices) < inv[p].settings.long_ma_period
            \/ Len(inv[p].prices) < inv[p].settings.rsi_period + 1)
        => /\ inv[p].status # 500
           /\ inv[p].signal_data.type = "HOLD"

\* The quantities calculate_quantity has returned to the invocation.
Quantities(r) == CallsOf(r, {"calculate_quantity"})

\* minQty and maxQty are themselves multiples of stepSize.
OnStepGrid(lot) ==
    /\ lot.minQty % lot.stepSize = 0
    /\ lot.maxQty % lot.stepSize = 0

\* q is a multiple of the filter's stepSize within [minQty, maxQty].
ValidQuantity(q, lot) ==
    /\ q % lot.stepSize = 0
    /\ lot.minQty <= q
    /\ q <= lot.maxQty

\* C19 (as claimed): for every non-negative raw quantity and every LOT_SIZE
\* filter, what calculate_quantity returns is a multiple of stepSize within
\* [minQty, maxQty].
C19_QuantityValid ==
    \A p \in Slots :
        \A i \in Quantities(inv[p]) :
            ValidQuantity(inv[p].calls[i].qty, inv[p].et.rules)

\* C19 (amended): for every non-negative raw quantity and every LOT_SIZE
\* filter whose minQty and maxQty are multiples of its stepSize, what
\* calculate_quantity returns is a multiple of stepSize within
\* [minQty, maxQty].
C19_QuantityValidOnGrid ==
    \A p \in Slots :
        OnStepGrid(inv[p].et.rules) =>
            \A i \in Quantities(inv[p]) :
                ValidQuantity(inv[p].calls[i].qty, inv[p].et.rules)

\* C19 witness: under a filter on the grid with a stepSize of 25 units, a raw
\* quantity that is no multiple of the step came back as a quantity strictly
\* between minQty and maxQty.
C19_Witness ==
    \E p \in Slots :
        /\ OnStepGrid(inv[p].et.rules)
        /\ inv[p].et.rules.stepSize = 25
        /\ (inv[p].settings.trade_amount_usdt * Pow10(QtyDigits))
              % (inv[p].et.price * 25) # 0
        /\ Quantities(inv[p]) # {}
        /\ inv[p].et.rules.minQty < inv[p].et.quantity
        /\ inv[p].et.quantity < inv[p].et.rules.maxQty

\* C20 (as claimed): calculate_quantity applied to a quantity it returned,
\* under the same filter, returns that quantity.
C20_Idempotent ==
    \A p \in Slots :
        Len(inv[p].calls) = 2 => inv[p].calls[2].qty = inv[p].calls[1].qty

\* C20 (amended): under a LOT_SIZE filter whose minQty and maxQty are
\* multiples of its stepSize, calculate_quantity applied to a quantity it
\* returned returns that quantity.
C20_IdempotentOnGrid ==
    \A p \in Slots :
        (Len(inv[p].calls) = 2 /\ OnStepGrid(inv[p].et.rules)) =>
            inv[p].calls[2].qty = inv[p].calls[1].qty

\* C20 witness: a quantity that was clamped to maxQty went through
\* calculate_quantity a second time and came back the same.
C20_Witness ==
    \E p \in Slots :
        /\ Len(inv[p].calls) = 2
        /\ OnStepGrid(inv[p].et.rules)
        /\ inv[p].calls[1].qty = inv[p].et.rules.maxQty
        /\ inv[p].calls[2].qty = inv[p].calls[1].qty

\* The raw quantity usdt_amount / current_price of the invocation, in units
\* of 10^-QtyDigits, as numerator over denominator.
RawNum(r) == r.settings.trade_amount_usdt * Pow10(QtyDigits)
RawDen(r) == r.et.price

\* The multiples of stepSize at the least distance from the raw quantity (two
\* of them when the raw quantity lies half-way between two steps).
NearestMultiples(r) ==
    LET st    == r.et.rules.stepSize
        below == (RawNum(r) \div (RawDen(r) * st)) * st
        dist(m) == IF m * RawDen(r) >= RawNum(r)
                   THEN m * RawDen(r) - RawNum(r)
                   ELSE RawNum(r) - m * RawDen(r)
    IN  {m \in {below, below + st} :
            \A n \in {below, below + st} : dist(m) <= dist(n)}

\* q is written with no more fractional digits than stepSize has.
HasStepDigits(q, lot) == q % Pow10(QtyDigits - StepDecimals(lot.stepSize)) = 0

\* C21 (as claimed): when the raw quantity is within [minQty, maxQty],
\* calculate_quantity returns a multiple of stepSize nearest to it, written
\* with the fractional digits of stepSize.
C21_NearestStep ==
    \A p \in Slots :
        (/\ Quantities(inv[p]) # {}
         /\ inv[p].et.rules.minQty * RawDen(inv[p]) <= RawNum(inv[p])
         /\ RawNum(inv[p]) <= inv[p].et.rules.maxQty * RawDen(inv[p]))
        => /\ inv[p].calls[1].qty \in NearestMultiples(inv[p])
           /\ HasStepDigits(inv[p].calls[1].qty, inv[p].et.rules)

\* C21 (amended): when the multiples of stepSize nearest to the raw quantity
\* are within [minQty, maxQty], calculate_quantity returns one of them,
\* written with the fractional digits of stepSize.
C21_NearestStepInRange ==
    \A p \in Slots :
        (/\ Quantities(inv[p]) # {}
         /\ \A m \in NearestMultiples(inv[p]) :
               inv[p].et.rules.minQty <= m /\ m <= inv[p].et.rules.maxQty)
        => /\ inv[p].calls[1].qty \in NearestMultiples(inv[p])
           /\ HasStepDigits(inv[p].calls[1].qty, inv[p].et.rules)

\* C21 witness: a raw quantity that is no multiple of the step, under the
\* finest step, came back as the step above it, within the bounds.
C21_Witness ==
    \E p \in Slots :
        /\ Quantities(inv[p]) # {}
        /\ inv[p].et.rules.stepSize = 1
        /\ RawNum(inv[p]) % RawDen(inv[p]) # 0
        /\ inv[p].calls[1].qty * RawDen(inv[p]) > RawNum(inv[p])
        /\ inv[p].et.rules.minQty < inv[p].calls[1].qty
        /\ inv[p].calls[1].qty < inv[p].et.rules.maxQty

\* The sum of the prices from position i on.
RECURSIVE PricesFrom(_, _)
PricesFrom(prices, i) ==
    IF i > Len(prices) THEN 0 ELSE prices[i] + PricesFrom(prices, i + 1)

\* The sum of the falls among the price changes from position i on: a change
\* from prices[j] to prices[j+1] falls by prices[j] - prices[j+1] when that is
\* positive.
RECURSIVE FallsFrom(_, _)
FallsFrom(prices, i) ==
    IF i >= Len(prices) THEN 0
    ELSE (IF prices[i] > prices[i + 1] THEN prices[i] - prices[i + 1] ELSE 0)
            + FallsFrom(prices, i + 1)

\* What the first and the second indicator call of the invocation returned.
MaResults(r)  == CallsOf(r, {"calculate_moving_average"})
RsiResults(r) == CallsOf(r, {"calculate_rsi"})

\* C22: calculate_moving_average(p, k) is the arithmetic mean of the last k
\* prices of p for 1 <= k <= len(p), and None, which is not the number zero,
\* for k > len(p).
C22_MovingAverageIsMean ==
    \A p \in Slots : \A i \in MaResults(inv[p]) :
        LET k  == inv[p].settings.short_ma_period
            n  == Len(inv[p].prices)
            ma == inv[p].calls[i]
        IN  IF k <= n
            THEN /\ ~ma.none
                 /\ ma.den > 0
                 /\ ma.num * k = ma.den * PricesFrom(inv[p].prices, n - k + 1)
            ELSE ma.none

\* C22 witness: the mean of the last k of more than k prices, the first of
\* which differs from the last, has been returned.
C22_Witness ==
    \E p \in Slots : \E i \in MaResults(inv[p]) :
        /\ inv[p].settings.short_ma_period < Len(inv[p].prices)
        /\ inv[p].settings.short_ma_period > 1
        /\ inv[p].prices[1] # inv[p].prices[Len(inv[p].prices)]
        /\ ~inv[p].calls[i].none

\* C23: calculate_rsi returns a value in [0, 100]; 50 with fewer than
\* period + 1 prices; otherwise 100 exactly when the falls among the last
\* `period` price changes sum to zero, and less than 100 when they do not.
C23_RsiRange ==
    \A p \in Slots : \A i \in RsiResults(inv[p]) :
        LET k     == inv[p].settings.rsi_period
            n     == Len(inv[p].prices)
            rsi   == inv[p].calls[i]
            falls == FallsFrom(inv[p].prices, n - k)
        IN  /\ ~rsi.none
            /\ rsi.den > 0
            /\ 0 <= rsi.num
            /\ rsi.num <= 100 * rsi.den
            /\ IF n < k + 1
               THEN rsi.num = 50 * rsi.den
               ELSE /\ (rsi.num = 100 * rsi.den) <=> (falls = 0)
                    /\ (falls > 0 => rsi.num < 100 * rsi.den)

\* C23 witness: a window with a rise and a fall has been answered with a
\* value strictly between 0 and 100.
C23_Witness ==
    \E p \in Slots : \E i \in RsiResults(inv[p]) :
        /\ Len(inv[p].prices) >= inv[p].settings.rsi_period + 1
        /\ 0 < inv[p].calls[i].num
        /\ inv[p].calls[i].num < 100 * inv[p].calls[i].den

\* C24: every signal of analyze_signal has a confidence in [0, 100]
\* (hundredths: 0..10000); HOLD has 0 or exactly 50, BUY and SELL have a
\* confidence strictly above 50 and at most 100.
C24_ConfidenceRange ==
    \A p \in Slots :
        Analyzed(inv[p]) /\ inv[p].status # 500
        => LET sd == inv[p].signal_data
           IN  /\ 0 <= sd.confidence /\ sd.confidence <= 10000
               /\ sd.type = "HOLD" => sd.confidence \in {0, 5000}
               /\ sd.type \in {"BUY", "SELL"}
                    => sd.confidence > 5000 /\ sd.confidence <= 10000

\* C24, amended: as C24, with BUY and SELL at 50 or above: the confidence is
\* rounded to two decimals, and an RSI within 0.0025 of its level gives 50.0.
C24_ConfidenceRangeRounded ==
    \A p \in Slots :
        Analyzed(inv[p]) /\ inv[p].status # 500
        => LET sd == inv[p].signal_data
           IN  /\ 0 <= sd.confidence /\ sd.confidence <= 10000
               /\ sd.type = "HOLD" => sd.confidence \in {0, 5000}
               /\ sd.type \in {"BUY", "SELL"}
                    => sd.confidence >= 5000 /\ sd.confidence <= 10000

\* C24 witness: a BUY has been returned with a confidence strictly between 50
\* and 100.
C24_Witness ==
    \E p \in Slots :
        /\ Analyzed(inv[p])
        /\ inv[p].signal_data.type = "BUY"
        /\ inv[p].signal_data.confidence > 5000
        /\ inv[p].signal_data.confidence < 10000

\* The cycle has classified a transition: it has read the last signal and its
\* own type is BUY or SELL and differs from the last one's, or there is none.
TransitionOf(r) ==
    /\ r.read_last
    /\ r.signal_data.type \in {"BUY", "SELL"}
    /\ (r.last_signal = NoSignal \/ r.last_signal.type # r.signal_data.type)

\* send_notification has been called by the cycle.
NotifyAttempted(r) ==
    \/ r.pc \in {"fcm_init", "fcm_send", "fcm_store"}
    \/ CallsOf(r, {"fcm_secret", "fcm_send"}) # {}

\* C25: a cycle calls send_notification if and only if notifications_enabled
\* is true and the cycle's transition flag is set; the same flag gates the
\* trade attempt; trading_enabled and the outcome of the trade do not count.
C25_NotifyIffEnabledAndTransition ==
    \A p \in Cycles :
        LET r == inv[p]
        IN  /\ NotifyAttempted(r)
                => r.settings.notifications_enabled /\ TransitionOf(r)
            /\ (r.pc = "done" /\ r.status = 200
                    /\ r.settings.notifications_enabled /\ TransitionOf(r))
                => NotifyAttempted(r)
            /\ r.et.entered => TransitionOf(r) /\ r.settings.trading_enabled

\* C25 witness: a cycle with trading enabled whose trade attempt failed has
\* called send_notification.
C25_Witness ==
    \E p \in Cycles :
        /\ NotifyAttempted(inv[p])
        /\ inv[p].settings.trading_enabled
        /\ inv[p].et.entered
        /\ inv[p].et.raised
        /\ ~inv[p].trade_executed

\* The cycle was ended by the host after it had stored its signal and set
\* the transition flag with trading enabled, before execute_trade was called.
EndedBeforeTrade(r) ==
    /\ r.pc = "killed"
    /\ r.signal_id # 0
    /\ r.decided
    /\ r.signal_changed
    /\ r.settings.trading_enabled
    /\ ~r.et.entered

\* C26: when a cycle that declared a transition with trading enabled and
\* stored its signal is ended by the host before the trade attempt, a later
\* cycle that classifies the same type (with trading enabled) attempts the
\* trade, so that the transition gets a trade or a failed-trade record.
C26_EndedTransitionResumed ==
    \A p \in Slots : \A q \in Slots \ {p} :
        ( /\ EndedBeforeTrade(inv[p])
          /\ inv[q].caller = "handler"
          /\ inv[q].pc = "done"
          /\ inv[q].status = 200
          /\ inv[q].signal_id > inv[p].signal_id
          /\ inv[q].signal_data.type = inv[p].signal_data.type
          /\ inv[q].settings.trading_enabled )
        => inv[q].et.entered

\* The operations of the invocation's exchange calls, in the order made.
IsExchangeCall(c) == c.op \in ExchangeOps

ExchangeSeq(r) ==
    LET s == SelectSeq(r.calls, IsExchangeCall)
    IN  [i \in 1..Len(s) |-> s[i].op]

IsPrefix(a, b) == Len(a) <= Len(b) /\ \A i \in 1..Len(a) : a[i] = b[i]

BuyOrder  == <<"ping", "account", "price", "exchangeInfo", "order">>
SellOrder == <<"ping", "account", "exchangeInfo", "price", "order">>

\* C27: the exchange calls of a trade attempt follow a fixed order.  The
\* balance is read in the attempt itself, before the quantity is sized and
\* before the order; for BUY the price is read after the balance and before
\* the quantity is normalized; the order is the last exchange call, placed
\* after every read before it has succeeded.
C27_ExchangeCallOrder ==
    \A p \in Slots :
        LET r == inv[p]
        IN  /\ IF r.signal_data.type = "BUY" THEN IsPrefix(ExchangeSeq(r), BuyOrder)
               ELSE IF r.signal_data.type = "SELL"
                    THEN IsPrefix(ExchangeSeq(r), SellOrder)
               ELSE ExchangeSeq(r) = << >>
            /\ (r.et.balance # 0 \/ r.et.quantity # 0)
                => \E j \in CallsOf(r, {"account"}) : r.calls[j].ok
            /\ \A i \in CallsOf(r, {"price", "exchangeInfo", "order"}) :
                  \E j \in CallsOf(r, {"account"}) : j < i /\ r.calls[j].ok
            /\ (r.signal_data.type = "BUY" /\ r.et.rules # NoRules)
                => \E j \in CallsOf(r, {"price"}), k \in CallsOf(r, {"exchangeInfo"}) :
                      j < k /\ r.calls[j].ok
            /\ \A i \in CallsOf(r, {"order"}) :
                  /\ \A j \in DOMAIN r.calls : j > i => ~IsExchangeCall(r.calls[j])
                  /\ \A j \in CallsOf(r, {"account", "price", "exchangeInfo"}) :
                        j < i /\ r.calls[j].ok

\* C27 witness: the second cycle has read the balance, then the price, then
\* the rules, and has placed a BUY order.
C27_Witness ==
    \E p \in Cycles :
        /\ ncycles = 2
        /\ inv[p].signal_data.type = "BUY"
        /\ ExchangeSeq(inv[p]) = BuyOrder

\* The sums over the fills of a stored trade document, by position.
RECURSIVE QtyFrom(_, _)
QtyFrom(fills, i) ==
    IF i > Len(fills) THEN 0 ELSE fills[i].qty + QtyFrom(fills, i + 1)

RECURSIVE ValueFrom(_, _)
ValueFrom(fills, i) ==
    IF i > Len(fills) THEN 0
    ELSE fills[i].price * fills[i].qty + ValueFrom(fills, i + 1)

RECURSIVE CommissionFrom(_, _)
CommissionFrom(fills, i) ==
    IF i > Len(fills) THEN 0 ELSE fills[i].commission + CommissionFrom(fills, i + 1)

\* The average_price of a stored trade document is the sum of price*qty over
\* its fills divided by the sum of qty, and 0 when that sum is 0.
AveragePriceRight(d) ==
    /\ "average_price" \in DOMAIN d
    /\ d.average_price.den > 0
    /\ IF QtyFrom(d.fills, 1) > 0
       THEN d.average_price.num * QtyFrom(d.fills, 1)
                = d.average_price.den * ValueFrom(d.fills, 1)
       ELSE d.average_price.num = 0

\* C28: the trade document stored for an accepted order carries
\* average_price = sum(price*qty) / sum(qty) over the fills (0 without fills
\* or with a total quantity of 0) and commission_total = the sum of the
\* fills' commissions.
C28_TradeRecordFigures ==
    \A i \in DOMAIN trades :
        /\ AveragePriceRight(trades[i])
        /\ "commission_total" \in DOMAIN trades[i]
        /\ trades[i].commission_total = CommissionFrom(trades[i].fills, 1)

\* send_notification failed in the cycle: the credential load or the send
\* failed, or the notification was sent and its record was not inserted.
NotifyFailed(r) ==
    \/ \E i \in CallsOf(r, {"fcm_secret", "fcm_send"}) : ~r.calls[i].ok
    \/ /\ r.sent
       /\ r.pc = "done"
       /\ \A i \in DOMAIN notifications : notifications[i].signal_id # r.signal_id

\* A failed send_notification leaves the cycle's signal and trade record in
\* place and the cycle returns 200.
NotifyFailureKeepsCycle ==
    \A p \in Cycles :
        (inv[p].pc = "done" /\ NotifyFailed(inv[p]))
        => /\ inv[p].status = 200
           /\ inv[p].signal_id \in DOMAIN signals
           /\ inv[p].trade_executed => TradeRecords(inv[p].signal_id) # {}

\* C29: a failed notification dispatch (credential load, send, insert of the
\* notification record) does not abort the cycle: its signal and trade record
\* stay, it returns 200 and the result's notification_sent is false;
\* notification_sent is true only when the notification was sent.
C29_NotifyFailureReported ==
    /\ NotifyFailureKeepsCycle
    /\ \A p \in Cycles :
          (inv[p].pc = "done" /\ inv[p].status = 200)
          => /\ NotifyFailed(inv[p]) => ~ResultBody(inv[p]).notification_sent
             /\ ResultBody(inv[p]).notification_sent
                  => \E i \in CallsOf(inv[p], {"fcm_send"}) : inv[p].calls[i].ok

\* The value of key k that the stored settings document layers onto the
\* defaults.
LayeredValue(k) ==
    IF k \in DOMAIN db_settings THEN db_settings[k] ELSE default_settings[k]

\* C30: the settings a cycle works with are, for every key, the stored value
\* when the stored document has the key and the default otherwise; they are
\* read from the store in every cycle, so that a cycle never works with what
\* an earlier cycle has read.
C30_SettingsLayeredEachCycle ==
    \A p \in Cycles :
        inv[p].pc \notin {"idle", "settings"}
        => \A k \in SettingKeys : inv[p].settings[k] = LayeredValue(k)

\* C31: every signed request carries the caller's parameters, then a
\* millisecond timestamp, then a signature computed over the parameters and
\* the timestamp in that order; the signature is last and is not part of the
\* signed string; an unsigned request carries neither.
C31_SignedRequestLayout ==
    \A p \in Slots : \A i \in DOMAIN inv[p].calls :
        LET c == inv[p].calls[i]
            n == Len(c.sent)
        IN  IF c.signed
            THEN /\ n = Len(c.params) + 2
                 /\ SubSeq(c.sent, 1, n - 2) = c.params
                 /\ c.sent[n - 1] = Item("timestamp", c.now \div 1000)
                 /\ c.sent[n].key = "signature"
                 /\ c.sent[n].value.secret = "api_secret"
                 /\ c.sent[n].value.message = SubSeq(c.sent, 1, n - 1)
                 /\ "signature" \notin Keys(c.sent[n].value.message)
            ELSE /\ c.sent = c.params
                 /\ Keys(c.sent) \cap {"timestamp", "signature"} = {}

\* C31 witness: a signed order request with four parameters of the caller has
\* been sent after another request.
C31_Witness ==
    \E p \in Slots : \E i \in DOMAIN inv[p].calls :
        /\ i > 1
        /\ inv[p].calls[i].op = "order"
        /\ inv[p].calls[i].signed
        /\ Len(inv[p].calls[i].sent) = 6

\* C32: on the SELL path the quantity passed to place_market_order is never
\* above the free base-asset balance read in the attempt.
C32_SellWithinBalance ==
    \A p \in Running :
        inv[p].signal_data.type = "SELL"
        => \A i \in CallsOf(inv[p], {"order"}) :
              inv[p].calls[i].qty <= inv[p].et.balance

\* C33: on the BUY path the quote cost of the placed order, the normalized
\* quantity times the price read in the attempt, is never above the
\* configured spend amount, and so never above the free quote balance that
\* passed the balance check.
C33_BuyWithinSpend ==
    \A p \in Running :
        inv[p].signal_data.type = "BUY"
        => \A i \in CallsOf(inv[p], {"order"}) :
              /\ inv[p].calls[i].qty * inv[p].et.price
                    <= inv[p].settings.trade_amount_usdt * Pow10(QtyDigits)
              /\ inv[p].calls[i].qty * inv[p].et.price
                    <= inv[p].et.balance * Pow10(QtyDigits)

\* No exchange operation is asked for twice in the invocation, and the order
\* at most once.
NoExchangeCallRepeated(r) ==
    \A i \in DOMAIN r.calls : \A j \in DOMAIN r.calls :
        (IsExchangeCall(r.calls[i]) /\ i # j) => r.calls[i].op # r.calls[j].op

\* C34: within one cycle place_market_order is invoked at most once and no
\* failed exchange call is retried: once an exchange call has failed, the
\* cycle makes no further exchange call.
C34_NoCallAfterFailure ==
    \A p \in Cycles :
        /\ Cardinality(CallsOf(inv[p], {"order"})) <= 1
        /\ NoExchangeCallRepeated(inv[p])
        /\ \A i \in CallsOf(inv[p], ExchangeOps) :
              ~inv[p].calls[i].ok
              => \A j \in CallsOf(inv[p], ExchangeOps) : j <= i

\* The cycle's read of the settings store failed: it works with settings
\* that are not the stored document layered onto the defaults.
SettingsReadFailed(r) ==
    /\ r.caller = "handler"
    /\ r.pc \notin {"idle", "settings"}
    /\ db_settings # NoDoc
    /\ r.settings # MergeSettings(db_settings)

\* C35: a cycle that could not read the settings store runs with the
\* defaults, under which trading_enabled is false: it fetches no credentials,
\* makes no exchange call and writes no trade and no failed-trade record,
\* whatever the stored settings are.
C35_UnreadableSettingsNoTrade ==
    \A p \in Cycles :
        SettingsReadFailed(inv[p])
        => /\ inv[p].settings = default_settings
           /\ ~inv[p].settings.trading_enabled
           /\ ~inv[p].et.entered
           /\ CallsOf(inv[p], TradeOps \cup RecordOps) = {}
           /\ inv[p].signal_id # 0
                => TradeRecords(inv[p].signal_id) \cup FailedRecords(inv[p].signal_id) = {}

\* C35 witness: with stored settings that switch trading on, a cycle that
\* could not read them has declared a transition and has returned 200.
C35_Witness ==
    \E p \in Cycles :
        /\ SettingsReadFailed(inv[p])
        /\ db_settings.trading_enabled
        /\ inv[p].signal_changed
        /\ inv[p].pc = "done"
        /\ inv[p].status = 200

\* The cycle's store_signal raised: the cycle has read the last signal, has
\* no signal id and has returned 500.
StoreSignalFailed(r) ==
    /\ r.pc = "done"
    /\ r.status = 500
    /\ r.read_last
    /\ r.signal_id = 0

\* The signal of the invocation is in the signal store.
SignalPersisted(r) ==
    /\ r.signal_id \in DOMAIN signals
    /\ signals[r.signal_id].type = r.signal_data.type

\* C36: a cycle whose store_signal fails attempts no trade, dispatches no
\* notification, writes no trade and no failed-trade record and returns 500;
\* a cycle attempts a trade or dispatches a notification only for a signal
\* it has persisted before, and every record names a persisted signal.
C36_NothingWithoutPersistedSignal ==
    /\ \A p \in Cycles :
          /\ StoreSignalFailed(inv[p])
                => /\ ~inv[p].decided
                   /\ ~inv[p].et.entered
                   /\ ~NotifyAttempted(inv[p])
                   /\ CallsOf(inv[p], TradeOps \cup RecordOps) = {}
          /\ (inv[p].et.entered \/ NotifyAttempted(inv[p]))
                => SignalPersisted(inv[p])
          /\ (inv[p].pc = "done" /\ inv[p].read_last /\ inv[p].signal_id = 0)
                => inv[p].status = 500
    /\ \A i \in DOMAIN trades : trades[i].signal_id \in DOMAIN signals
    /\ \A i \in DOMAIN failed_trades : failed_trades[i].signal_id \in DOMAIN signals
    /\ \A i \in DOMAIN notifications : notifications[i].signal_id \in DOMAIN signals

\* C36 witness: with trading and notifications on, the insert of a BUY or
\* SELL signal that had no predecessor has failed and the cycle has returned.
C36_Witness ==
    \E p \in Cycles :
        /\ StoreSignalFailed(inv[p])
        /\ inv[p].signal_data.type \in {"BUY", "SELL"}
        /\ inv[p].last_signal = NoSignal
        /\ inv[p].settings.trading_enabled
        /\ inv[p].settings.notifications_enabled

\* The price query of the invocation has returned no samples: the
\* invocation leaves the query with an empty window and without an error.
NoPricesStep(p) ==
    /\ inv[p].pc = "prices"
    /\ inv'[p].pc # "prices"
    /\ inv'[p].prices = << >>
    /\ inv'[p].status # 500

\* The cycle has returned 200 for want of prices.
NoPricesReturned(r) ==
    /\ r.pc = "done"
    /\ r.status = 200
    /\ r.prices = << >>

\* C37: when the price query returns no samples the cycle returns 200 at
\* once: it has persisted no signal, has not read the last signal, has
\* attempted no trade and dispatched no notification, and the signal store
\* (like the other stores) is as the cycle found it; no step of a cycle up
\* to that return changes the signal store, and the only step left to the
\* cycle is handing back its result.
C37_NoPricesNoEffect ==
    [][\A p \in Slots :
          /\ NoPricesStep(p)
                => /\ NoPricesReturned(inv'[p])
                   /\ inv'[p].signal_id = 0
                   /\ inv'[p].signal_data = IdleInv.signal_data
                   /\ ~inv'[p].read_last
                   /\ ~inv'[p].decided
                   /\ ~inv'[p].et.entered
                   /\ ~NotifyAttempted(inv'[p])
                   /\ inv'[p].calls = << >>
                   /\ signals' = signals
                   /\ trades' = trades
                   /\ failed_trades' = failed_trades
                   /\ notifications' = notifications
          /\ (inv'[p] # inv[p] /\ inv'[p].pc \in {"settings", "prices"})
                => signals' = signals
          /\ (NoPricesReturned(inv[p]) /\ inv'[p] # inv[p])
                => inv'[p] = IdleInv /\ signals' = signals
    ]_vars

\* C37 witness: a cycle that found a signal in the store, with trading and
\* notifications on, has returned 200 for want of prices.
C37_Witness ==
    \E p \in Cycles :
        /\ NoPricesReturned(inv[p])
        /\ signals # << >>
        /\ inv[p].settings.trading_enabled
        /\ inv[p].settings.notifications_enabled


(***************************************************************************)
(* manual_buy.py: main().  The script runs once, in slot 1; its inputs are *)
(* the two environment variables, the account the exchange holds and the   *)
(* two lines waiting on standard input.                                    *)
(***************************************************************************)
\* os.getenv: None when the variable is not set, else its text
EnvValues == {"<unset>", "", "testnet-key"}

\* "not api_key": None and the empty string are false
Truthy(v) == v \notin {"<unset>", ""}

\* The line typed at "Enter USDT amount to spend"
AmountLines == {"0", "15", "25", "abc"}

\* float(amount_input): the number, or ValueError
ParseFloat(line) ==
    CASE line = "0"  -> [raised |-> FALSE, value |-> 0]
      [] line = "15" -> [raised |-> FALSE, value |-> 15]
      [] line = "25" -> [raised |-> FALSE, value |-> 25]
      [] OTHER       -> [raised |-> TRUE, value |-> 0]

\* The line typed at "Type 'BUY' to confirm"
ConfirmLines == {"BUY", " BUY ", "buy", ""}

\* confirm.strip()
Strip(line) == IF line = " BUY " THEN "BUY" ELSE line

\* The attributes of a BinanceSpotTrader object: the class's constants and
\* methods and the fields __init__ sets.
BinanceSpotTraderAttrs ==
    {"TESTNET_BASE_URL", "PRODUCTION_BASE_URL", "__init__",
     "_generate_signature", "_make_request", "test_connection",
     "get_account_info", "get_balance", "get_current_price",
     "get_symbol_info", "calculate_quantity", "place_market_order",
     "execute_buy_signal", "execute_sell_signal", "get_trade_history",
     "format_trade_summary", "api_key", "api_secret", "base_url", "testnet"}

\* The script before its first statement.
InitManualBuy ==
    /\ db_settings = NoDoc
    /\ signals = << >>
    /\ trades = << >>
    /\ failed_trades = << >>
    /\ notifications = << >>
    /\ firebase_app = [p \in Slots |-> FALSE]
    /\ ncycles = MaxCycles
    /\ prev = [persisted |-> "NONE"]
    /\ \E key \in EnvValues, secret \in EnvValues, free \in UsdtBalances,
          amount_input \in AmountLines, confirm \in ConfirmLines :
          inv = [p \in Slots |->
                   IF p = 1
                   THEN [pc |-> "mb_credentials", caller |-> "manual_buy",
                         api_key |-> key, api_secret |-> secret,
                         account_usdt |-> free,
                         stdin |-> <<amount_input, confirm>>,
                         calls |-> << >>, error |-> ""]
                   ELSE IdleInv]

\* 1. Get credentials from .env; return when one is missing.
ManualBuyGetCredentials(p) ==
    /\ inv[p].pc = "mb_credentials"
    /\ Upd(p, IF ~Truthy(inv[p].api_key) \/ ~Truthy(inv[p].api_secret)
              THEN [inv[p] EXCEPT !.pc = "done", !.error = "Missing credentials"]
              ELSE [inv[p] EXCEPT !.pc = "mb_trader"])
    /\ UNCHANGED <<db_settings, signals, trades, failed_trades, notifications,
                   firebase_app, ncycles, prev>>

\* 2. Initialize Trader: the constructor sets fields; test_connection pings
\* the testnet and returns False, without raising, when the ping fails.
ManualBuyInitTrader(p) ==
    /\ inv[p].pc = "mb_trader"
    /\ \E ok \in BOOLEAN :
          LET r == Logged(inv[p], Call("ping", "testnet", 0, ok))
          IN  Upd(p, [r EXCEPT !.pc = "mb_balances"])
    /\ UNCHANGED <<db_settings, signals, trades, failed_trades, notifications,
                   firebase_app, ncycles, prev>>

\* 3. Check Balances: balances = trader.get_balances().  The lookup of an
\* attribute the object does not have raises AttributeError, which the
\* step's "except Exception" turns into a return.
ManualBuyCheckBalances(p) ==
    /\ inv[p].pc = "mb_balances"
    /\ Upd(p, IF "get_balances" \notin BinanceSpotTraderAttrs
              THEN [inv[p] EXCEPT !.pc = "done",
                                  !.error = "Failed to fetch balances"]
              ELSE [inv[p] EXCEPT !.pc = "mb_amount"])
    /\ UNCHANGED <<db_settings, signals, trades, failed_trades, notifications,
                   firebase_app, ncycles, prev>>

NextManualBuy ==
    \E p \in Slots :
        \/ ManualBuyGetCredentials(p)
        \/ ManualBuyInitTrader(p)
        \/ ManualBuyCheckBalances(p)

SpecManualBuy == InitManualBuy /\ [][NextManualBuy]_vars

\* The runs of the manual buy script.
ManualBuys == {p \in Slots : inv[p].caller = "manual_buy"}

\* The entered amount, when the entered line is a number.
EnteredAmount(r) == ParseFloat(r.stdin[1]).value

\* All inputs of the script are as it asks: both credentials present, a
\* USDT balance above 10, an amount in (0, balance], the confirmation BUY.
ManualBuyInputsSatisfied(r) ==
    /\ Truthy(r.api_key)
    /\ Truthy(r.api_secret)
    /\ r.account_usdt > 10
    /\ ~ParseFloat(r.stdin[1]).raised
    /\ 0 < EnteredAmount(r)
    /\ EnteredAmount(r) <= r.account_usdt
    /\ Strip(r.stdin[2]) = "BUY"

\* The script's calls of execute_buy_signal, by position.
ManualBuyOrders(r) == {i \in DOMAIN r.calls : r.calls[i].op = "execute_buy_signal"}

\* C38: the manual buy script calls execute_buy_signal only when all its
\* inputs are satisfied, and a run that has ended with all inputs satisfied
\* and every exchange call answered has called execute_buy_signal with the
\* entered amount.
C38_ManualBuyReachesOrder ==
    \A p \in ManualBuys :
        /\ ManualBuyOrders(inv[p]) # {} => ManualBuyInputsSatisfied(inv[p])
        /\ ( /\ inv[p].pc = "done"
             /\ ManualBuyInputsSatisfied(inv[p])
             /\ \A i \in DOMAIN inv[p].calls : inv[p].calls[i].ok )
              => \E i \in ManualBuyOrders(inv[p]) :
                     inv[p].calls[i].qty = EnteredAmount(inv[p])

=============================================================================
